---- MODULE Spec2Model ----
(***************************************************************************)
(* Verification model of git-analyzer's ingestion pipeline:                *)
(*   - the bounded task scheduler  runWithConcurrency   (services/sync.js) *)
(*   - the sync orchestrator       syncRepositories / syncBranches /       *)
(*                                 syncCommits / processCommit             *)
(*   - the developer identity resolver  processIdentities                  *)
(*                                        (services/developer-grouping.js) *)
(*   - the heuristic analyzer      analyzeCommit  (services/analysis.js)   *)
(*                                                                         *)
(* Node runs one macrotask at a time and drains the microtask queue after  *)
(* it.  The orchestrator's actions therefore are the I/O events (an HTTP   *)
(* request arriving, a provider call settling) together with everything    *)
(* the code runs synchronously up to its next pending provider call.       *)
(***************************************************************************)
EXTENDS Integers, Sequences, FiniteSets, TLC

VARIABLES
    sched,          \* one runWithConcurrency invocation, promise by promise
    db,             \* the SQLite database behind the shared connection
    runs,           \* the syncCommits calls, by call number
    env,            \* the surroundings: clock resolution, provider failures so far
    op              \* the latest synchronous operation run by itself (a resolver
                    \* pass, a merge, an analysis, a client call) and its outcome

vars == <<sched, db, runs, env, op>>

(***************************************************************************)
(* Generic helpers                                                         *)
(***************************************************************************)
Min(a, b) == IF a <= b THEN a ELSE b
Max(a, b) == IF a >= b THEN a ELSE b

(***************************************************************************)
(* PART 1 - runWithConcurrency, at promise granularity                     *)
(*                                                                         *)
(* status of item i:                                                       *)
(*   "idle"      asyncFn(item) not called yet                              *)
(*   "running"   asyncFn(item) called, its promise pending  (in flight)    *)
(*   "settled"   asyncFn's promise fulfilled, the .then callback that      *)
(*               deletes the derived promise from `executing` still queued *)
(*   "done"      .then callback ran: deleted from `executing`, derived     *)
(*               promise fulfilled                                         *)
(*   "rejected"  asyncFn's promise rejected: the .then callback is skipped,*)
(*               the derived promise rejects and stays in `executing`      *)
(* loop: where the body of runWithConcurrency stands                       *)
(*   "call"  not called      "iter"  at the top of the for loop            *)
(*   "race"  suspended in await Promise.race(executing)                    *)
(*   "all"   returned Promise.all(results), not settled yet                *)
(*   "resolved" / "rejected"  the promise runWithConcurrency returned      *)
(***************************************************************************)
MaxItems == 10      \* longest item sequence handed to the scheduler
MaxConcurrency == 3 \* largest concurrency limit tried

SchedIdle ==
    [loop |-> "call", n |-> 1, len |-> 0, next |-> 1,
     status |-> [i \in 1..MaxItems |-> "idle"], raceSet |-> {}]

\* the Set `executing` (part_010:24): promises added and not deleted
Executing(s) == {i \in 1..MaxItems : s.status[i] \in {"running", "settled", "rejected"}}

\* workers started and not yet settled
InFlight(s) == {i \in 1..MaxItems : s.status[i] = "running"}

\* part_010:35  if (executing.size >= concurrency)
AtCeilingOffByOne(size, concurrency) == size > concurrency
AtCeiling(size, concurrency) == size >= concurrency

\* runWithConcurrency(items, concurrency, asyncFn) is called
SchedCall ==
    /\ sched.loop = "call"
    /\ \E n \in 1..MaxConcurrency, len \in 0..MaxItems :
         sched' = [SchedIdle EXCEPT !.n = n, !.len = len,
                                    !.loop = IF len = 0 THEN "all" ELSE "iter"]

\* one pass of the for loop body (part_010:26-37): start the worker, add its
\* promise, and suspend in Promise.race when the set is full.  No other code
\* runs between two passes that do not suspend.
SchedDispatch ==
    /\ sched.loop = "iter"
    /\ LET i == sched.next
           s1 == [sched EXCEPT !.status[i] = "running", !.next = i + 1]
       IN sched' =
            IF AtCeiling(Cardinality(Executing(s1)), s1.n)
            THEN [s1 EXCEPT !.loop = "race", !.raceSet = Executing(s1)]
            ELSE [s1 EXCEPT !.loop = IF i + 1 > s1.len THEN "all" ELSE "iter"]

\* the worker's promise fulfils
SchedSettle(i) ==
    /\ sched.loop \notin {"call", "iter"}
    /\ sched.status[i] = "running"
    /\ sched' = [sched EXCEPT !.status[i] = "settled"]

\* the worker's promise rejects (a worker that throws uncaught)
SchedReject(i) ==
    /\ sched.loop \notin {"call", "iter"}
    /\ sched.status[i] = "running"
    /\ sched' = [sched EXCEPT !.status[i] = "rejected"]

\* the .then callback of part_010:27-30: executing.delete(promise)
SchedThen(i) ==
    /\ sched.loop \notin {"call", "iter"}
    /\ sched.status[i] = "settled"
    /\ sched' = [sched EXCEPT !.status[i] = "done"]

\* await Promise.race(executing) resumes: one promise of the raced set has
\* settled.  A fulfilled one lets the loop go on, a rejected one throws out
\* of runWithConcurrency.
SchedRaceResume ==
    /\ sched.loop = "race"
    /\ \/ /\ \E i \in sched.raceSet : sched.status[i] = "done"
          /\ sched' = [sched EXCEPT !.raceSet = {},
                          !.loop = IF sched.next > sched.len THEN "all" ELSE "iter"]
       \/ /\ \E i \in sched.raceSet : sched.status[i] = "rejected"
          /\ sched' = [sched EXCEPT !.raceSet = {}, !.loop = "rejected"]

\* Promise.all(results) settles (part_010:40)
SchedAll ==
    /\ sched.loop = "all"
    /\ \/ /\ \A i \in 1..sched.len : sched.status[i] = "done"
          /\ sched' = [sched EXCEPT !.loop = "resolved"]
       \/ /\ \E i \in 1..sched.len : sched.status[i] = "rejected"
          /\ sched' = [sched EXCEPT !.loop = "rejected"]


(***************************************************************************)
(* PART 2 - the store (database/init.js) and the providers                 *)
(*                                                                         *)
(* Every table is the sequence of its rows in rowid order; a row's id is   *)
(* its position (AUTOINCREMENT, and the orchestrator deletes no row).      *)
(* A NULL integer column is 0.                                             *)
(***************************************************************************)
IdSeq(n) == [i \in 1..n |-> i]

RECURSIVE SumSeq(_)
SumSeq(q) == IF q = <<>> THEN 0 ELSE Head(q) + SumSeq(Tail(q))

\* the provider kinds getClientForPlatform knows (part_010:47-56)
KnownTypes == {"azure_devops", "github", "gitlab"}

\* the platforms table: configured connections (database/init.js:24-33)
PlatformRows(t2) ==
    << [type |-> "github", name |-> "gh"],
       [type |-> t2,       name |-> "gl"] >>

\* repositories mirrored and selected before the commit syncs start:
\* r1 and r2 take part in sync, r3 does not
RepositoryRows ==
    << [platform_id |-> 1, external_id |-> "101", full_name |-> "org/r1",
        default_branch |-> "main", is_selected |-> TRUE,  last_synced |-> TRUE],
       [platform_id |-> 2, external_id |-> "201", full_name |-> "grp/r2",
        default_branch |-> "main", is_selected |-> TRUE,  last_synced |-> FALSE],
       [platform_id |-> 1, external_id |-> "103", full_name |-> "org/r3",
        default_branch |-> "main", is_selected |-> FALSE, last_synced |-> FALSE] >>

\* the branches syncBranches found for r1; r2 has none yet, so syncCommits
\* falls back to its default branch and creates the row lazily
BranchRows ==
    << [repository_id |-> 1, name |-> "main", last_synced |-> FALSE],
       [repository_id |-> 1, name |-> "dev",  last_synced |-> FALSE] >>

DbEmpty ==
    [platforms |-> <<>>, repositories |-> <<>>, branches |-> <<>>,
     commits |-> <<>>, commit_files |-> <<>>, commit_flags |-> <<>>,
     sync_log |-> <<>>, developers |-> <<>>, developer_identities |-> <<>>,
     lastInsertRowid |-> 0]

(* ---- strings ----------------------------------------------------------- *)
\* A string the code takes apart (a name, an email) is the sequence of its
\* characters: 1..26 are a..z, 27..52 are A..Z, then '@', '.', ' ', and
\* one letter outside ASCII in both cases, e-acute.
At == 53
Dot == 54
Space == 55
EAcute == 56
EAcuteUpper == 57
\* String.prototype.toLowerCase follows Unicode
ToLowerChar(c) == IF c \in 27..52 THEN c - 26
                  ELSE IF c = EAcuteUpper THEN EAcute ELSE c
ToLowerCase(s) == [i \in DOMAIN s |-> ToLowerChar(s[i])]
\* SQLite's built-in LOWER() folds the ASCII letters only
SqlLower(s) == [i \in DOMAIN s |-> IF s[i] \in 27..52 THEN s[i] - 26 ELSE s[i]]

(* ---- what the providers hold (unchanged throughout) ------------------- *)
Dates == 1..3

NameAnnLee == <<27, 14, 14, Space, 38, 5, 5>>   \* "Ann Lee"
NameBob == <<2, 15, 2>>                         \* "bob"
EmailAnn == <<1, 14, 14, At, 24>>               \* "ann@x"
EmailAnnUpper == <<27, 40, 40, At, 24>>         \* "ANN@x"
EmailBob == <<2, 15, 2, At, 25>>                \* "bob@y"

\* the commits reachable from each branch, newest first; sha "a" is on two
\* branches of org/r1
ProviderBranchCommits(fullName, branch) ==
    IF fullName = "org/r1" /\ branch = "main" THEN <<"b", "a">>
    ELSE IF fullName = "org/r1" /\ branch = "dev" THEN <<"a">>
    ELSE IF fullName = "grp/r2" /\ branch = "main" THEN <<"c">>
    ELSE <<>>

\* what listCommits reports of a commit.  msg abstracts the first line of the
\* message to what isVagueMessage reads of it.
ProviderCommit(sha) ==
    IF sha = "a" THEN
        [sha |-> "a", committedAt |-> 1, authorName |-> NameAnnLee, authorEmail |-> EmailAnn,
         isMergeCommit |-> FALSE,
         message |-> [text |-> "fix", len |-> 3, vaguePattern |-> TRUE, hasSpace |-> FALSE]]
    ELSE IF sha = "b" THEN
        [sha |-> "b", committedAt |-> 2, authorName |-> NameAnnLee, authorEmail |-> EmailAnnUpper,
         isMergeCommit |-> FALSE,
         message |-> [text |-> "Refactor billing module", len |-> 23,
                      vaguePattern |-> FALSE, hasSpace |-> TRUE]]
    ELSE
        [sha |-> "c", committedAt |-> 3, authorName |-> NameBob, authorEmail |-> EmailBob,
         isMergeCommit |-> TRUE,
         message |-> [text |-> "Merge branch dev", len |-> 16,
                      vaguePattern |-> FALSE, hasSpace |-> TRUE]]

\* what getCommitDetails reports of a commit.  A filename is kept as the parts
\* the exclusion rules read: its directory, file name and extension.  For "a"
\* the provider gives the aggregate stats but no per-file line counts, which
\* the client maps to 0 (part_009:194-195  file.additions || 0).
ProviderDetails(sha) ==
    IF sha = "a" THEN
        [filesChanged |-> 1, linesAdded |-> 3, linesRemoved |-> 0,
         files |-> << [filename |-> [dir |-> "src/", name |-> "a.js", ext |-> ".js"],
                       status |-> "modified",
                       linesAdded |-> 0, linesRemoved |-> 0] >>]
    ELSE IF sha = "b" THEN
        [filesChanged |-> 1, linesAdded |-> 600, linesRemoved |-> 0,
         files |-> << [filename |-> [dir |-> "assets/", name |-> "big.json", ext |-> ".json"],
                       status |-> "added",
                       linesAdded |-> 600, linesRemoved |-> 0] >>]
    ELSE
        [filesChanged |-> 0, linesAdded |-> 0, linesRemoved |-> 0, files |-> <<>>]

\* client.listCommits(repo, branch, from, to): the commits of the branch dated
\* within the inclusive range (part_009:145-158, gitlab.js:186-188)
ListCommits(fullName, branch, fromDate, toDate) ==
    SelectSeq(ProviderBranchCommits(fullName, branch),
              LAMBDA sha : /\ ProviderCommit(sha).committedAt >= fromDate
                           /\ ProviderCommit(sha).committedAt <= toDate)

\* part_010:188  the details processCommit goes on with when the fetch failed
NoDetails == [filesChanged |-> 0, linesAdded |-> 0, linesRemoved |-> 0, files |-> <<>>]

(***************************************************************************)
(* PART 3 - the heuristic analyzer as processCommit calls it               *)
(*          (analyzeCommit without diff text) and the exclusion rules      *)
(***************************************************************************)
SmallCommitLines == 10   \* analysis.js:46  totalLines < 10
LargeCommitLines == 500  \* analysis.js:58  totalLines > 500
LargeCommitFiles == 20   \* analysis.js:58  filesChanged > 20
ShortMessage == 10       \* analysis.js:125 message.length < 10
SingleWordMessage == 20  \* analysis.js:133 message.length < 20

\* analysis.js:124-136; vaguePattern says that one of VAGUE_PATTERNS matches
isVagueMessage(m) ==
    \/ m.len = 0 \/ m.len < ShortMessage
    \/ m.vaguePattern
    \/ (~m.hasSpace /\ m.len < SingleWordMessage)

\* file-exclusions.js:87-91
ConfigExtensions == {".json", ".xml", ".config", ".yml", ".yaml", ".env", ".ini", ".toml"}
isConfigFile(f) == f.ext \in ConfigExtensions

\* file-exclusions.js:48-80, on the parts of the path
ExcludedExtensions == {".lock", ".min.js", ".min.css", ".map", ".designer.vb",
                       ".designer.cs", ".resx", ".g.cs", ".g.vb"}
ExcludedDirectories == {"bin/", "obj/", "packages/", "node_modules/", ".vs/",
                        ".vscode/", ".idea/", "TestResults/", "Debug/", "Release/"}
ExcludedFilenames == {"package-lock.json", "yarn.lock", "pnpm-lock.yaml",
                      "composer.lock", "gemfile.lock", "packages.lock.json"}
isFileExcluded(f) ==
    \/ f.name \in ExcludedFilenames
    \/ f.ext \in ExcludedExtensions
    \/ f.dir \in ExcludedDirectories

\* the analyzer with the thresholds taken inclusively
analyzeCommitInclusive(commit) ==
    LET totalLines == commit.linesAdded + commit.linesRemoved
        small == IF totalLines <= SmallCommitLines /\ isVagueMessage(commit.message)
                 THEN <<"small_vague_commit">> ELSE <<>>
        large == IF totalLines >= LargeCommitLines \/ commit.filesChanged >= LargeCommitFiles
                 THEN <<"large_commit">> ELSE <<>>
        config == IF Len(commit.files) > 0
                     /\ \A i \in DOMAIN commit.files : isConfigFile(commit.files[i].filename)
                  THEN <<"config_only">> ELSE <<>>
    IN small \o large \o config

\* analysis.js:38-79 with diffContent = null: the flag kinds, in push order
analyzeCommit(commit) ==
    LET totalLines == commit.linesAdded + commit.linesRemoved
        small == IF totalLines < SmallCommitLines /\ isVagueMessage(commit.message)
                 THEN <<"small_vague_commit">> ELSE <<>>
        large == IF totalLines > LargeCommitLines \/ commit.filesChanged > LargeCommitFiles
                 THEN <<"large_commit">> ELSE <<>>
        config == IF Len(commit.files) > 0
                     /\ \A i \in DOMAIN commit.files : isConfigFile(commit.files[i].filename)
                  THEN <<"config_only">> ELSE <<>>
    IN small \o large \o config

(***************************************************************************)
(* PART 4 - processCommit (part_010:169-246)                               *)
(*                                                                         *)
(* The operators below transform S = [db, run, tie, coarse, rid]: the      *)
(* database, the record of the syncCommits call that is running, and the   *)
(* inputs of the step.                                                     *)
(***************************************************************************)
MinOf(set) == CHOOSE x \in set : \A y \in set : x <= y
MaxOf(set) == CHOOSE x \in set : \A y \in set : x >= y

\* part_010:172-174  db.get(SELECT id ... WHERE repository_id = ? AND sha = ?)
ExistingCommit(d, repoId, sha) ==
    LET ids == {i \in DOMAIN d.commits :
                  d.commits[i].repository_id = repoId /\ d.commits[i].sha = sha}
    IN IF ids = {} THEN 0 ELSE MinOf(ids)

\* part_010:178  SELECT SUM(lines_added) ... WHERE commit_id = ?  (NULL is 0)
FileStatsTotal(d, commitId) ==
    LET rows == SelectSeq(d.commit_files, LAMBDA f : f.commit_id = commitId)
    IN SumSeq([i \in DOMAIN rows |-> rows[i].lines_added])

\* part_010:179  the repair state of a stored commit
needsRepair(d, commitId) ==
    d.commits[commitId].lines_added > 0 /\ FileStatsTotal(d, commitId) = 0

\* part_010:176-185  whether processCommit returns early with skipped++
SkipsCommitIgnoringRepair(d, repoId, sha, force) ==
    ExistingCommit(d, repoId, sha) # 0 /\ ~force
SkipsCommit(d, repoId, sha, force) ==
    LET existing == ExistingCommit(d, repoId, sha)
    IN existing # 0 /\ ~force /\ ~needsRepair(d, existing)

\* part_010:196-213  INSERT INTO commits ... ON CONFLICT(repository_id, sha)
\* DO UPDATE.  Only a row that is really inserted moves the connection's
\* last-insert rowid.
UpsertCommitAlwaysInsert(d, repoId, branchId, commit, details) ==
    [d EXCEPT !.commits = Append(@,
                  [repository_id |-> repoId, branch_id |-> branchId, developer_id |-> 0,
                   sha |-> commit.sha, message |-> commit.message.text,
                   author_name |-> commit.authorName, author_email |-> commit.authorEmail,
                   committed_at |-> commit.committedAt,
                   lines_added |-> details.linesAdded,
                   lines_removed |-> details.linesRemoved,
                   lines_net |-> details.linesAdded - details.linesRemoved,
                   files_changed |-> details.filesChanged,
                   is_merge_commit |-> commit.isMergeCommit]),
              !.lastInsertRowid = Len(d.commits) + 1]
UpsertCommit(d, repoId, branchId, commit, details) ==
    LET e == ExistingCommit(d, repoId, commit.sha)
    IN IF e = 0
       THEN [d EXCEPT !.commits = Append(@,
                  [repository_id |-> repoId, branch_id |-> branchId, developer_id |-> 0,
                   sha |-> commit.sha, message |-> commit.message.text,
                   author_name |-> commit.authorName, author_email |-> commit.authorEmail,
                   committed_at |-> commit.committedAt,
                   lines_added |-> details.linesAdded,
                   lines_removed |-> details.linesRemoved,
                   lines_net |-> details.linesAdded - details.linesRemoved,
                   files_changed |-> details.filesChanged,
                   is_merge_commit |-> commit.isMergeCommit]),
                  !.lastInsertRowid = Len(d.commits) + 1]
       ELSE [d EXCEPT !.commits[e].message = commit.message.text,
                      !.commits[e].lines_added = details.linesAdded,
                      !.commits[e].lines_removed = details.linesRemoved,
                      !.commits[e].lines_net = details.linesAdded - details.linesRemoved,
                      !.commits[e].files_changed = details.filesChanged]

\* part_010:215-216  result.lastInsertRowid || db.get(SELECT id ...).id
\* better-sqlite3 reports the connection's last-insert rowid, which an upsert
\* that took the UPDATE path leaves at the rowid of the latest INSERT into any
\* table; the SELECT is reached only while that rowid is still 0.
CommitIdOf(d, repoId, sha) ==
    IF d.lastInsertRowid # 0 THEN d.lastInsertRowid ELSE ExistingCommit(d, repoId, sha)

\* part_010:219-226  INSERT OR REPLACE INTO commit_files, file by file.
\* commit_files has no unique key besides its id, so each statement inserts;
\* foreign keys are on (db.js:10), so a commit_id that names no commit throws.
RECURSIVE InsertFiles(_, _, _)
InsertFiles(d, commitId, files) ==
    IF files = <<>> THEN [db |-> d, threw |-> FALSE]
    ELSE IF commitId \notin DOMAIN d.commits THEN [db |-> d, threw |-> TRUE]
    ELSE InsertFiles(
           [d EXCEPT !.commit_files = Append(@,
                         [commit_id |-> commitId, filename |-> Head(files).filename.name,
                          status |-> Head(files).status,
                          lines_added |-> Head(files).linesAdded,
                          lines_removed |-> Head(files).linesRemoved,
                          is_excluded |-> isFileExcluded(Head(files).filename)]),
                     !.lastInsertRowid = Len(d.commit_files) + 1],
           commitId, Tail(files))

\* analysis.js:208-217  saveCommitFlags(commitId, flags)
RECURSIVE saveCommitFlags(_, _, _)
saveCommitFlags(d, commitId, flags) ==
    IF flags = <<>> THEN [db |-> d, threw |-> FALSE]
    ELSE IF commitId \notin DOMAIN d.commits THEN [db |-> d, threw |-> TRUE]
    ELSE saveCommitFlags(
           [d EXCEPT !.commit_flags = Append(@,
                         [commit_id |-> commitId, flag_type |-> Head(flags)]),
                     !.lastInsertRowid = Len(d.commit_flags) + 1],
           commitId, Tail(flags))

\* part_010:195-245  processCommit from the upsert on, for the i-th listed
\* commit of worker j, with the details that were fetched (or NoDetails)
PersistCommit(S, j, i, details) ==
    LET w == S.run.ws[j]
        commit == ProviderCommit(w.cl[i])
        d1 == UpsertCommit(S.db, w.repo.id, w.branchId, commit, details)
        commitId == CommitIdOf(d1, w.repo.id, commit.sha)
        f == InsertFiles(d1, commitId, details.files)
        flags == analyzeCommit([message |-> commit.message,
                                linesAdded |-> details.linesAdded,
                                linesRemoved |-> details.linesRemoved,
                                filesChanged |-> details.filesChanged,
                                files |-> details.files])
        g == IF f.threw THEN f ELSE saveCommitFlags(f.db, commitId, flags)
    IN IF g.threw
       THEN [S EXCEPT !.db = g.db,
                      !.run.ws[j].cs[i] = "failed",
                      !.run.res.failed = @ + 1,
                      !.run.res.errors = Append(@, [at |-> "commit", sha |-> commit.sha]),
                      !.run.res.total = @ + 1]
       ELSE [S EXCEPT !.db = g.db,
                      !.run.ws[j].cs[i] = "success",
                      !.run.res.success = @ + 1,
                      !.run.res.total = @ + 1]

(***************************************************************************)
(* PART 5 - the developer identity resolver (developer-grouping.js)        *)
(***************************************************************************)
SubSeqFrom(s, i) == SubSeq(s, i, Len(s))
IndexOf(s, c) == IF \E i \in DOMAIN s : s[i] = c
                 THEN MinOf({i \in DOMAIN s : s[i] = c}) ELSE 0

\* s.split(c)[0] and s.split(c)[1] ('' when there is no second part)
FirstPart(s, c) == IF IndexOf(s, c) = 0 THEN s ELSE SubSeq(s, 1, IndexOf(s, c) - 1)
SecondPart(s, c) ==
    IF IndexOf(s, c) = 0 THEN <<>> ELSE FirstPart(SubSeqFrom(s, IndexOf(s, c) + 1), c)

\* developer-grouping.js:11-35: the last row of the dp table, row by row
RECURSIVE LevRow(_, _, _, _)
LevRow(prev, ch, str2, j) ==
    \* the cells 1..j of the row for character ch, given the row above
    IF j = 0 THEN <<>>
    ELSE LET left == LevRow(prev, ch, str2, j - 1)
             leftCell == IF j = 1 THEN prev[1] + 1 ELSE left[j - 1]
             cell == IF ch = str2[j] THEN prev[j]
                     ELSE 1 + Min(prev[j + 1], Min(leftCell, prev[j]))
         IN Append(left, cell)
RECURSIVE LevRows(_, _, _)
LevRows(prev, str1, str2) ==
    \* prev is row i-1 as <<dp[i-1][0], ..., dp[i-1][n]>>
    IF str1 = <<>> THEN prev
    ELSE LevRows(<<prev[1] + 1>> \o LevRow(prev, Head(str1), str2, Len(str2)),
                 Tail(str1), str2)
levenshteinDistance(str1, str2) ==
    LevRows([j \in 1..(Len(str2) + 1) |-> j - 1], str1, str2)[Len(str2) + 1]

IsLowerLetter(c) == c \in 1..26

\* the length of the run of spaces of s that starts at i (0 if none)
RECURSIVE SpaceRun(_, _)
SpaceRun(s, i) == IF i > Len(s) \/ s[i] # Space THEN 0 ELSE 1 + SpaceRun(s, i + 1)

\* the length of a match of /\s+[a-z]\.?\s+/ that starts at i (0 if none)
InitialMatch(s, i) ==
    LET r1 == SpaceRun(s, i)
        l == i + r1
        withDot == IF l + 1 <= Len(s) /\ s[l + 1] = Dot THEN SpaceRun(s, l + 2) ELSE 0
        noDot == SpaceRun(s, l + 1)
    IN IF r1 = 0 \/ l > Len(s) \/ ~IsLowerLetter(s[l]) THEN 0
       ELSE IF withDot > 0 THEN r1 + 2 + withDot
       ELSE IF noDot > 0 THEN r1 + 1 + noDot
       ELSE 0

\* .replace(/\s+[a-z]\.?\s+/g, ' ')
RECURSIVE StripInitials(_, _)
StripInitials(s, i) ==
    IF i > Len(s) THEN <<>>
    ELSE IF InitialMatch(s, i) > 0
         THEN <<Space>> \o StripInitials(s, i + InitialMatch(s, i))
         ELSE <<s[i]>> \o StripInitials(s, i + 1)

\* .replace(/\s+/g, ' ')
RECURSIVE CollapseSpaces(_, _)
CollapseSpaces(s, i) ==
    IF i > Len(s) THEN <<>>
    ELSE IF s[i] = Space THEN <<Space>> \o CollapseSpaces(s, i + SpaceRun(s, i))
         ELSE <<s[i]>> \o CollapseSpaces(s, i + 1)

\* .trim()
Trim(s) ==
    LET keep == {i \in DOMAIN s : s[i] # Space}
    IN IF keep = {} THEN <<>> ELSE SubSeq(s, MinOf(keep), MaxOf(keep))

\* developer-grouping.js:43-51
normalizeName(name) ==
    Trim(CollapseSpaces(StripInitials(ToLowerCase(name), 1), 1))

\* developer-grouping.js:56-60
getEmailDomain(email) == SecondPart(email, At)

\* developer-grouping.js:65-68
getFirstName(name) == ToLowerCase(FirstPart(name, Space))

NameDistanceLimit == 3   \* developer-grouping.js:89  distance < 3
FullNameMinLength == 5   \* developer-grouping.js:99  normalized1.length > 5

\* developer-grouping.js:75  exact email match
SameEmail(identity1, identity2) ==
    ToLowerCase(identity1.email) = ToLowerCase(identity2.email)

\* developer-grouping.js:80-93  same domain and similar first name
SimilarFirstName(identity1, identity2) ==
    /\ getEmailDomain(identity1.email) # <<>>
    /\ getEmailDomain(identity1.email) = getEmailDomain(identity2.email)
    /\ getFirstName(identity1.name) # <<>>
    /\ getFirstName(identity2.name) # <<>>
    /\ levenshteinDistance(getFirstName(identity1.name), getFirstName(identity2.name))
         < NameDistanceLimit

\* developer-grouping.js:96-101  equal normalized full names, long enough
SameFullName(identity1, identity2) ==
    /\ normalizeName(identity1.name) = normalizeName(identity2.name)
    /\ Len(normalizeName(identity1.name)) > FullNameMinLength

\* developer-grouping.js:73-104
areSamePerson(identity1, identity2) ==
    \/ SameEmail(identity1, identity2)
    \/ SimilarFirstName(identity1, identity2)
    \/ SameFullName(identity1, identity2)

\* developer-grouping.js:111-117  the distinct (author_name, author_email)
\* pairs of the commits without a developer, in the order the rows first
\* give them
RECURSIVE DistinctPairs(_, _)
DistinctPairs(rows, seen) ==
    IF rows = <<>> THEN <<>>
    ELSE LET p == [name |-> Head(rows).author_name, email |-> Head(rows).author_email]
         IN IF Head(rows).developer_id # 0 \/ p.email = <<>> \/ p \in seen
            THEN DistinctPairs(Tail(rows), seen)
            ELSE <<p>> \o DistinctPairs(Tail(rows), seen \cup {p})

\* developer-grouping.js:131-134 and 177-180
\* UPDATE commits SET developer_id = ? WHERE LOWER(author_email) = ? AND developer_id IS NULL
AttributeCommits(d, developerId, email) ==
    [d EXCEPT !.commits =
        [i \in DOMAIN d.commits |->
            IF SqlLower(d.commits[i].author_email) = email /\ d.commits[i].developer_id = 0
            THEN [d.commits[i] EXCEPT !.developer_id = developerId]
            ELSE d.commits[i]]]

\* developer-grouping.js:121-181  the loop body for one unmapped pair, with
\* `email` the value of the local of line 120.  The INSERT OR IGNORE of line
\* 158 inserts nothing when the very email is stored (UNIQUE(email),
\* init.js:77).
ResolvePairFor(d, pair, email) ==
    LET name == IF pair.name # <<>> THEN pair.name ELSE FirstPart(email, At)
        ids == d.developer_identities
        \* 124-127: WHERE LOWER(email) = ?
        sameEmail == {i \in DOMAIN ids : SqlLower(ids[i].email) = email}
        \* 142-146: identities joined with their (still existing) developer
        joined == {i \in DOMAIN ids : d.developers[ids[i].developer_id].present}
        same == {i \in joined : areSamePerson([name |-> name, email |-> email], ids[i])}
    IN IF sameEmail # {}
       THEN AttributeCommits(d, ids[MinOf(sameEmail)].developer_id, email)
       ELSE IF same # {}
       THEN AttributeCommits(
              IF \E i \in DOMAIN ids : ids[i].email = email THEN d
              ELSE [d EXCEPT !.developer_identities = Append(@,
                              [developer_id |-> ids[MinOf(same)].developer_id,
                               name |-> name, email |-> email]),
                             !.lastInsertRowid = Len(ids) + 1],
              ids[MinOf(same)].developer_id, email)
       ELSE AttributeCommits(
              [d EXCEPT !.developers = Append(@, [canonical_name |-> name,
                                                  is_active |-> TRUE, present |-> TRUE]),
                        !.developer_identities = Append(@,
                            [developer_id |-> Len(d.developers) + 1,
                             name |-> name, email |-> email]),
                        !.lastInsertRowid = Len(ids) + 1],
              Len(d.developers) + 1, email)

\* the loop body that keeps the email as the commit spells it
ResolvePairRawEmail(d, pair) == ResolvePairFor(d, pair, pair.email)

\* developer-grouping.js:119-181  the loop body: line 120 lower-cases the
\* email first
ResolvePair(d, pair) == ResolvePairFor(d, pair, ToLowerCase(pair.email))

RECURSIVE ResolvePairs(_, _)
ResolvePairs(d, pairs) ==
    IF pairs = <<>> THEN d ELSE ResolvePairs(ResolvePair(d, Head(pairs)), Tail(pairs))

\* developer-grouping.js:109-182
processIdentities(d) == ResolvePairs(d, DistinctPairs(d.commits, {}))

\* the developers table has a row with this id
DeveloperExists(d, id) == id \in DOMAIN d.developers /\ d.developers[id].present

CommitCount(d, id) == Cardinality({i \in DOMAIN d.commits : d.commits[i].developer_id = id})

IdentitiesOf(d, id) == {i \in DOMAIN d.developer_identities :
                          d.developer_identities[i].developer_id = id}

\* DELETE FROM developers WHERE id = ?  with the schema's ON DELETE CASCADE
\* for identities (init.js:76) and ON DELETE SET NULL for commits (init.js:99)
DeleteDeveloper(d, id) ==
    IF ~DeveloperExists(d, id) THEN d
    ELSE [d EXCEPT !.developers[id].present = FALSE,
                   !.developer_identities = SelectSeq(@, LAMBDA r : r.developer_id # id),
                   !.commits = [i \in DOMAIN @ |->
                                  IF @[i].developer_id = id
                                  THEN [@[i] EXCEPT !.developer_id = 0] ELSE @[i]]]

\* the merge that moves the identities and deletes the source, but leaves the
\* commits where they are
mergeDevelopersIdentitiesOnly(d, sourceId, targetId) ==
    IF IdentitiesOf(d, sourceId) # {} /\ ~DeveloperExists(d, targetId)
    THEN [db |-> d, threw |-> TRUE]
    ELSE [db |-> DeleteDeveloper(
                   [d EXCEPT !.developer_identities =
                                [i \in DOMAIN @ |-> IF @[i].developer_id = sourceId
                                                    THEN [@[i] EXCEPT !.developer_id = targetId]
                                                    ELSE @[i]]],
                   sourceId),
          threw |-> FALSE]

\* developer-grouping.js:187-204  three statements, each committed by itself.
\* Foreign keys are on (db.js:10): an UPDATE that would point a row at a
\* developer that does not exist throws, and the statements after it do not
\* run.
mergeDevelopers(d, sourceId, targetId) ==
    LET movesIdentities == IdentitiesOf(d, sourceId) # {}
        d1 == [d EXCEPT !.developer_identities =
                  [i \in DOMAIN @ |-> IF @[i].developer_id = sourceId
                                      THEN [@[i] EXCEPT !.developer_id = targetId]
                                      ELSE @[i]]]
        movesCommits == CommitCount(d, sourceId) > 0
        d2 == [d1 EXCEPT !.commits =
                  [i \in DOMAIN @ |-> IF @[i].developer_id = sourceId
                                      THEN [@[i] EXCEPT !.developer_id = targetId]
                                      ELSE @[i]]]
    IN IF movesIdentities /\ ~DeveloperExists(d, targetId)
       THEN [db |-> d, threw |-> TRUE]
       ELSE IF movesCommits /\ ~DeveloperExists(d, targetId)
       THEN [db |-> d1, threw |-> TRUE]
       ELSE [db |-> DeleteDeveloper(d2, sourceId), threw |-> FALSE]

\* developer-grouping.js:210-217  the names ORDER BY count DESC puts first,
\* count being how often a name occurs among the identities of the
\* developer.  The statement names no second sort key, so LIMIT 1 may return
\* any of them.
TopNames(d, id) ==
    LET NameCount(name) ==
            Cardinality({i \in IdentitiesOf(d, id) :
                           d.developer_identities[i].name = name})
    IN {d.developer_identities[i].name : i \in
          {i \in IdentitiesOf(d, id) :
             \A m \in IdentitiesOf(d, id) :
                NameCount(d.developer_identities[i].name)
                  >= NameCount(d.developer_identities[m].name)}}

\* the recompute that takes the name of the developer's oldest identity
updateCanonicalNameOldest(d, id, name) ==
    IF IdentitiesOf(d, id) = {} \/ ~DeveloperExists(d, id) THEN d
    ELSE [d EXCEPT !.developers[id].canonical_name =
                      d.developer_identities[MinOf(IdentitiesOf(d, id))].name]

\* developer-grouping.js:209-225  with `name` the row the query returned
updateCanonicalName(d, id, name) ==
    IF IdentitiesOf(d, id) = {} \/ ~DeveloperExists(d, id) THEN d
    ELSE [d EXCEPT !.developers[id].canonical_name = name]

(***************************************************************************)
(* PART 6 - syncCommits (part_010:251-382)                                 *)
(*                                                                         *)
(* A call is the record                                                    *)
(*   st     "idle" (not called), "active", "returned", "rejected"          *)
(*   kind   "commits", "repositories" or "branches": which sync it is      *)
(*   from, to, force          the arguments                                *)
(*   res    the results object                                             *)
(*   ws     one worker per selected repository, in the order of `repos`    *)
(*   identCalls               how often processIdentities was invoked      *)
(*   pfails, listed, full, solo, repairAtStart   bookkeeping for the       *)
(*          properties: provider calls that failed, commits the listings   *)
(*          returned, whether all listings started at `from`, whether no   *)
(*          other call ran while this one did, whether a stored commit was *)
(*          in the repair state when the call started                      *)
(* A worker (the async callback of part_010:271) is the record             *)
(*   pc     "idle", "listing" (awaiting listCommits), "commits" (awaiting  *)
(*          the commit workers), "done", "threw"                           *)
(*   repo   its row of `repos`;  brs, bi  its branches and the current one *)
(*   branchId, effFrom        the locals branchId and effectiveFromDate    *)
(*   cl, cs the commits of the latest listing and where each commit worker *)
(*          stands: "idle", "details" (awaiting getCommitDetails),         *)
(*          "skipped", "success", "failed"                                 *)
(*   att    bookkeeping: how each branch attempt went at the provider      *)
(***************************************************************************)
REPO_CONCURRENCY == 3
COMMIT_CONCURRENCY == 5

MaxRuns == 3        \* sync calls in one behaviour
MaxActive == 2      \* sync calls running at the same time
MaxFailures == 1    \* provider calls that fail in one behaviour

\* the [from, to] windows the caller asks for
Windows == {<<1, 1>>, <<2, 3>>}

NoResults == [success |-> 0, failed |-> 0, total |-> 0, skipped |-> 0, errors |-> <<>>]

RunIdle ==
    [st |-> "idle", kind |-> "commits", from |-> 0, to |-> 0, force |-> FALSE,
     res |-> NoResults,
     ws |-> <<>>, identCalls |-> 0, pfails |-> 0, listed |-> 0, full |-> TRUE,
     solo |-> FALSE, repairAtStart |-> FALSE]

\* part_010:252-257  SELECT r.*, p.type ... WHERE r.is_selected = 1
SelectedRepos(d) ==
    LET ids == SelectSeq(IdSeq(Len(d.repositories)),
                         LAMBDA i : d.repositories[i].is_selected)
    IN [k \in DOMAIN ids |->
          [id |-> ids[k],
           full_name |-> d.repositories[ids[k]].full_name,
           default_branch |-> d.repositories[ids[k]].default_branch,
           type |-> d.platforms[d.repositories[ids[k]].platform_id].type]]

WorkerIdle(repo) ==
    [pc |-> "idle", repo |-> repo, brs |-> <<>>, bi |-> 0, branchId |-> 0,
     effFrom |-> 0, cl |-> <<>>, cs |-> <<>>, att |-> <<>>]

\* part_010:273-280  the branches of the repository, or its default branch
BranchesOf(d, repo) ==
    LET ids == SelectSeq(IdSeq(Len(d.branches)),
                         LAMBDA i : d.branches[i].repository_id = repo.id)
    IN IF ids = <<>> THEN << [name |-> repo.default_branch, id |-> 0] >>
       ELSE [k \in DOMAIN ids |-> [name |-> d.branches[ids[k]].name, id |-> ids[k]]]

BranchIdOf(d, repoId, name) ==
    LET ids == {i \in DOMAIN d.branches :
                  d.branches[i].repository_id = repoId /\ d.branches[i].name = name}
    IN IF ids = {} THEN 0 ELSE MinOf(ids)

\* part_010:299-303  INSERT INTO branches ... ON CONFLICT DO UPDATE SET name = name
UpsertBranch(d, repoId, name) ==
    IF BranchIdOf(d, repoId, name) # 0 THEN d
    ELSE [d EXCEPT !.branches = Append(@, [repository_id |-> repoId, name |-> name,
                                           last_synced |-> FALSE]),
                   !.lastInsertRowid = Len(d.branches) + 1]

\* part_010:314-318  the latest successful 'commits' entry of the branch:
\* ORDER BY created_at DESC LIMIT 1.  created_at has a resolution of one
\* second; among entries of the same second SQL fixes no order, and tie says
\* which end of them the query returns.  0 when there is none.
LatestSuccess(d, repoId, branchId, tie) ==
    LET c == {i \in DOMAIN d.sync_log :
                /\ d.sync_log[i].repository_id = repoId
                /\ d.sync_log[i].branch_id = branchId
                /\ d.sync_log[i].sync_type = "commits"
                /\ d.sync_log[i].status = "success"}
        newest == {i \in c : \A k \in c :
                     d.sync_log[i].created_at >= d.sync_log[k].created_at}
    IN IF c = {} THEN 0 ELSE IF tie = "low" THEN MinOf(newest) ELSE MaxOf(newest)

\* part_010:311-327
effectiveFromDateAnyPrior(d, repoId, branchId, fromDate, force, tie) ==
    LET D == {d.sync_log[i].to_date : i \in {i \in DOMAIN d.sync_log :
                /\ d.sync_log[i].repository_id = repoId
                /\ d.sync_log[i].branch_id = branchId
                /\ d.sync_log[i].sync_type = "commits"
                /\ d.sync_log[i].status = "success"}}
    IN IF ~force /\ D # {} /\ MaxOf(D) >= fromDate THEN MaxOf(D) ELSE fromDate
effectiveFromDate(d, repoId, branchId, fromDate, force, tie) ==
    LET lastSync == LatestSuccess(d, repoId, branchId, tie)
    IN IF ~force /\ lastSync # 0 /\ d.sync_log[lastSync].to_date >= fromDate
       THEN d.sync_log[lastSync].to_date ELSE fromDate

\* a sync_log row; created_at is CURRENT_TIMESTAMP (database/init.js:135),
\* rid is bookkeeping: the call that wrote the row
LogRow(S, repoId, branchId, fromDate, status, hasError) ==
    [repository_id |-> repoId, branch_id |-> branchId, sync_type |-> "commits",
     from_date |-> fromDate, to_date |-> S.run.to, status |-> status,
     error_message |-> hasError,
     created_at |-> IF S.coarse THEN 0 ELSE Len(S.db.sync_log) + 1,
     rid |-> S.rid]

InsertSyncLog(S, row) ==
    [S EXCEPT !.db.sync_log = Append(@, row),
              !.db.lastInsertRowid = Len(S.db.sync_log) + 1]

RECURSIVE NextBranch(_, _)

\* part_010:360-368  the catch block of a branch attempt, then the next branch
BranchFailedUncaught(S, j) == [S EXCEPT !.run.ws[j].pc = "threw"]
BranchFailedHalts(S, j) ==
    LET w == S.run.ws[j]
        S1 == [S EXCEPT !.run.res.errors =
                  Append(@, [at |-> "branch", repo |-> w.repo.id, branch |-> w.brs[w.bi].name])]
    IN [InsertSyncLog(S1, LogRow(S1, w.repo.id, w.brs[w.bi].id, S.run.from, "failed", TRUE))
          EXCEPT !.run.ws[j].pc = "done"]
BranchFailed(S, j) ==
    LET w == S.run.ws[j]
        S1 == [S EXCEPT !.run.res.errors =
                  Append(@, [at |-> "branch", repo |-> w.repo.id, branch |-> w.brs[w.bi].name])]
    IN NextBranch(InsertSyncLog(S1, LogRow(S1, w.repo.id, w.brs[w.bi].id, S.run.from,
                                           "failed", TRUE)), j)

\* part_010:349-358  the branch's commit workers are all through: log success,
\* stamp the branch, then the next branch
BranchLoggedUnlessCommitFailed(S, j) ==
    LET w == S.run.ws[j]
    IN IF \E i \in DOMAIN w.cs : w.cs[i] = "failed" THEN NextBranch(S, j)
       ELSE NextBranch([InsertSyncLog(S, LogRow(S, w.repo.id, w.branchId, w.effFrom,
                                                "success", FALSE))
                          EXCEPT !.db.branches[w.branchId].last_synced = TRUE], j)
BranchLogged(S, j) ==
    LET w == S.run.ws[j]
    IN NextBranch([InsertSyncLog(S, LogRow(S, w.repo.id, w.branchId, w.effFrom,
                                           "success", FALSE))
                     EXCEPT !.db.branches[w.branchId].last_synced = TRUE], j)

\* part_010:293-329  one branch attempt up to the pending listCommits call
BranchPrelude(S, j) ==
    LET w == S.run.ws[j]
        branch == w.brs[w.bi]
    IN IF w.repo.type \notin KnownTypes
       THEN \* getClientForPlatform throws (part_010:55)
            BranchFailed([S EXCEPT !.run.ws[j].att = Append(@, "noclient")], j)
       ELSE LET d1 == IF branch.id = 0 THEN UpsertBranch(S.db, w.repo.id, branch.name)
                      ELSE S.db
                branchId == IF branch.id = 0 THEN BranchIdOf(d1, w.repo.id, branch.name)
                            ELSE branch.id
                eff == effectiveFromDate(d1, w.repo.id, branchId, S.run.from,
                                         S.run.force, S.tie)
            IN [S EXCEPT !.db = d1,
                         !.run.ws[j].pc = "listing",
                         !.run.ws[j].branchId = branchId,
                         !.run.ws[j].effFrom = eff,
                         !.run.full = @ /\ (eff = S.run.from)]

\* part_010:282, 371  the for loop over the branches; after the last one the
\* worker returns
NextBranch(S, j) ==
    LET w == S.run.ws[j]
    IN IF w.pc = "threw" THEN S
       ELSE IF w.bi + 1 > Len(w.brs)
       THEN [S EXCEPT !.run.ws[j].pc = "done", !.run.ws[j].bi = w.bi + 1]
       ELSE BranchPrelude([S EXCEPT !.run.ws[j].bi = w.bi + 1], j)

\* part_010:169-185  processCommit up to its first await
StartCommitUncounted(S, j, i) ==
    LET w == S.run.ws[j]
    IN IF SkipsCommit(S.db, w.repo.id, w.cl[i], S.run.force)
       THEN [S EXCEPT !.run.ws[j].cs[i] = "skipped"]
       ELSE [S EXCEPT !.run.ws[j].cs[i] = "details"]
\* results.total++ reached on the skip path too
StartCommitSkipInTotal(S, j, i) ==
    LET w == S.run.ws[j]
    IN IF SkipsCommit(S.db, w.repo.id, w.cl[i], S.run.force)
       THEN [S EXCEPT !.run.ws[j].cs[i] = "skipped", !.run.res.skipped = @ + 1,
                      !.run.res.total = @ + 1]
       ELSE [S EXCEPT !.run.ws[j].cs[i] = "details"]
StartCommit(S, j, i) ==
    LET w == S.run.ws[j]
    IN IF SkipsCommit(S.db, w.repo.id, w.cl[i], S.run.force)
       THEN [S EXCEPT !.run.ws[j].cs[i] = "skipped", !.run.res.skipped = @ + 1]
       ELSE [S EXCEPT !.run.ws[j].cs[i] = "details"]

\* part_010:333-347  runWithConcurrency over the listed commits, as far as it
\* gets without waiting for a provider: commit workers are started in order
\* while fewer than COMMIT_CONCURRENCY are pending; once all are through, the
\* branch is logged
RECURSIVE CommitPump(_, _)
CommitPump(S, j) ==
    LET w == S.run.ws[j]
        idle == {i \in DOMAIN w.cs : w.cs[i] = "idle"}
        pending == {i \in DOMAIN w.cs : w.cs[i] = "details"}
    IN IF idle # {} /\ ~AtCeiling(Cardinality(pending), COMMIT_CONCURRENCY)
       THEN CommitPump(StartCommit(S, j, MinOf(idle)), j)
       ELSE IF idle = {} /\ pending = {} THEN BranchLogged(S, j)
       ELSE S

\* part_010:271-280  a repository worker starts
StartRepoWorker(S, j) ==
    NextBranch([S EXCEPT !.run.ws[j].brs = BranchesOf(S.db, S.run.ws[j].repo),
                         !.run.ws[j].pc = "started"], j)

\* part_010:374-381  after the repository workers: the resolver, then return
FinishSyncWithoutResolver(S) == [S EXCEPT !.run.st = "returned"]
FinishSync(S) ==
    [S EXCEPT !.db = processIdentities(S.db),
              !.run.identCalls = @ + 1,
              !.run.st = "returned"]

\* part_010:271-372  runWithConcurrency over the repositories, as far as it
\* gets without waiting for a provider; a worker that threw rejects the call
RECURSIVE RepoPump(_)
RepoPump(S) ==
    LET ws == S.run.ws
        idle == {j \in DOMAIN ws : ws[j].pc = "idle"}
        pending == {j \in DOMAIN ws : ws[j].pc \in {"listing", "commits"}}
    IN IF \E j \in DOMAIN ws : ws[j].pc = "threw"
       THEN [S EXCEPT !.run.st = "rejected"]
       ELSE IF idle # {} /\ ~AtCeiling(Cardinality(pending), REPO_CONCURRENCY)
       THEN RepoPump(StartRepoWorker(S, MinOf(idle)))
       ELSE IF idle = {} /\ pending = {} THEN FinishSync(S)
       ELSE S

(***************************************************************************)
(* PART 6b - syncRepositories and syncBranches (part_010:62-164)           *)
(*                                                                         *)
(* Their calls are records like those of syncCommits, of kind              *)
(* "repositories" and "branches"; a worker is [pc, item] with pc "idle",   *)
(* "listing" (awaiting the provider), "done" or "threw".                   *)
(***************************************************************************)
\* what each provider account lists, by the platform row that points at it
ProviderRepositories(platformName) ==
    IF platformName = "gh"
    THEN << [id |-> "101", fullName |-> "org/r1", defaultBranch |-> "main"],
            [id |-> "103", fullName |-> "org/r3", defaultBranch |-> "main"] >>
    ELSE << [id |-> "201", fullName |-> "grp/r2", defaultBranch |-> "main"] >>

ProviderBranches(fullName) ==
    IF fullName = "org/r1" THEN <<"main", "dev">> ELSE <<"main">>

\* client.listRepositories() when the provider call succeeds (ok) or fails:
\* GitHubClient and GitLabClient catch the failure, warn and return what they
\* have (part_009:104-107, gitlab.js:132-135); AzureDevOpsClient's projects
\* request is not guarded and rejects (analysis.js:381)
listRepositories(type, platformName, ok) ==
    IF ok THEN [threw |-> FALSE, repos |-> ProviderRepositories(platformName)]
    ELSE IF type = "azure_devops" THEN [threw |-> TRUE, repos |-> <<>>]
    ELSE [threw |-> FALSE, repos |-> <<>>]

RepositoryIdOf(d, platformId, externalId) ==
    LET ids == {i \in DOMAIN d.repositories :
                  /\ d.repositories[i].platform_id = platformId
                  /\ d.repositories[i].external_id = externalId}
    IN IF ids = {} THEN 0 ELSE MinOf(ids)

\* the upsert written as INSERT OR REPLACE: the row that conflicts gives way
\* to a fresh one, with the column defaults
UpsertRepositoryReplacing(d, platformId, repo) ==
    LET e == RepositoryIdOf(d, platformId, repo.id)
        row == [platform_id |-> platformId, external_id |-> repo.id,
                full_name |-> repo.fullName, default_branch |-> repo.defaultBranch,
                is_selected |-> FALSE, last_synced |-> FALSE]
    IN IF e = 0
       THEN [d EXCEPT !.repositories = Append(@, row),
                      !.lastInsertRowid = Len(d.repositories) + 1]
       ELSE [d EXCEPT !.repositories[e] = row]

\* part_010:84-91  INSERT INTO repositories ... ON CONFLICT(platform_id,
\* external_id) DO UPDATE SET name, full_name, default_branch
UpsertRepository(d, platformId, repo) ==
    LET e == RepositoryIdOf(d, platformId, repo.id)
    IN IF e = 0
       THEN [d EXCEPT !.repositories = Append(@,
                 [platform_id |-> platformId, external_id |-> repo.id,
                  full_name |-> repo.fullName, default_branch |-> repo.defaultBranch,
                  is_selected |-> FALSE, last_synced |-> FALSE]),
                      !.lastInsertRowid = Len(d.repositories) + 1]
       ELSE [d EXCEPT !.repositories[e].full_name = repo.fullName,
                      !.repositories[e].default_branch = repo.defaultBranch]

\* part_010:82-99  the for loop over the listed repositories
RECURSIVE UpsertRepositories(_, _, _)
UpsertRepositories(S, platformId, repos) ==
    IF repos = <<>> THEN S
    ELSE UpsertRepositories(
           [S EXCEPT !.db = UpsertRepository(S.db, platformId, Head(repos)),
                     !.run.res.success = @ + 1,
                     !.run.res.total = @ + 1],
           platformId, Tail(repos))

\* part_010:136-150  the for loop over the listed branches
RECURSIVE UpsertBranches(_, _, _)
UpsertBranches(S, repoId, names) ==
    IF names = <<>> THEN S
    ELSE UpsertBranches(
           [S EXCEPT !.db = UpsertBranch(S.db, repoId, Head(names)),
                     !.run.res.success = @ + 1,
                     !.run.res.total = @ + 1],
           repoId, Tail(names))

\* part_010:63  SELECT * FROM platforms
PlatformItems(d) ==
    [i \in DOMAIN d.platforms |->
       [id |-> i, type |-> d.platforms[i].type, name |-> d.platforms[i].name]]

CatalogWorkerIdle(item) == [pc |-> "idle", item |-> item]

\* part_010:100-102 and 157-160  the catch block of a catalog worker:
\* syncBranches counts the repository as failed, syncRepositories does not
CatalogWorkerFailed(S, j) ==
    [S EXCEPT !.run.ws[j].pc = "done",
              !.run.res.errors = Append(@, [at |-> S.run.kind, item |-> S.run.ws[j].item.id]),
              !.run.res.failed = IF S.run.kind = "branches" THEN @ + 1 ELSE @]

\* part_010:78-80 and 132-134  a catalog worker up to its provider call
StartCatalogWorker(S, j) ==
    IF S.run.ws[j].item.type \notin KnownTypes
    THEN CatalogWorkerFailed(S, j)
    ELSE [S EXCEPT !.run.ws[j].pc = "listing"]

\* part_010:68 and 122  runWithConcurrency over the platforms or the selected
\* repositories, as far as it gets without waiting for a provider
RECURSIVE CatalogPump(_)
CatalogPump(S) ==
    LET ws == S.run.ws
        idle == {j \in DOMAIN ws : ws[j].pc = "idle"}
        pending == {j \in DOMAIN ws : ws[j].pc = "listing"}
    IN IF \E j \in DOMAIN ws : ws[j].pc = "threw"
       THEN [S EXCEPT !.run.st = "rejected"]
       ELSE IF idle # {} /\ ~AtCeiling(Cardinality(pending), REPO_CONCURRENCY)
       THEN CatalogPump(StartCatalogWorker(S, MinOf(idle)))
       ELSE IF idle = {} /\ pending = {} THEN [S EXCEPT !.run.st = "returned"]
       ELSE S

(***************************************************************************)
(* PART 7 - the events: a request arrives, a provider call settles         *)
(*                                                                         *)
(* env records the surroundings of a behaviour:                            *)
(*   coarse     all sync_log timestamps fall into the same second          *)
(*   failures   provider calls that have failed so far                     *)
(*   budget, maxRuns, maxActive, catalog   the envelope explored: how many *)
(*              provider calls may fail, how many sync calls are made, how *)
(*              many may run at once, whether the catalog is being built   *)
(***************************************************************************)
\* which end of a same-second tie the last-sync query may return
Ties == IF env.coarse THEN {"low", "high"} ELSE {"low"}

ActiveRuns == {r \in 1..MaxRuns : runs[r].st = "active"}

Pack(k, tie) == [db |-> db, run |-> runs[k], tie |-> tie, coarse |-> env.coarse, rid |-> k]

Unpack(k, S) ==
    /\ db' = S.db
    /\ runs' = [runs EXCEPT ![k] = S.run]

ProviderMayFail == env.failures < env.budget

CanStart(k) ==
    /\ k <= env.maxRuns
    /\ runs[k].st = "idle"
    /\ IF k = 1 THEN TRUE ELSE runs[k - 1].st # "idle"
    /\ Cardinality(ActiveRuns) < env.maxActive

\* the call k starts: calls already running are no longer alone
Started(k, S) ==
    /\ db' = S.db
    /\ runs' = [r \in 1..MaxRuns |->
                  IF r = k THEN S.run
                  ELSE IF runs[r].st = "active" THEN [runs[r] EXCEPT !.solo = FALSE]
                  ELSE runs[r]]

\* POST /api/commits/sync arrives (routes/commits.js:86-117): syncCommits runs
\* up to the first pending provider call of each repository worker
SyncCommitsCall(k) ==
    /\ CanStart(k)
    /\ \E win \in Windows, force \in BOOLEAN, tie \in Ties :
         LET repos == SelectedRepos(db)
             run0 == [RunIdle EXCEPT !.st = "active", !.from = win[1], !.to = win[2],
                                     !.force = force,
                                     !.ws = [j \in DOMAIN repos |-> WorkerIdle(repos[j])],
                                     !.solo = (ActiveRuns = {}),
                                     !.repairAtStart =
                                        \E c \in DOMAIN db.commits : needsRepair(db, c)]
         IN Started(k, RepoPump([Pack(k, tie) EXCEPT !.run = run0]))
    /\ UNCHANGED <<sched, env, op>>

\* client.listCommits fulfils (part_010:329): the commit workers start
ListCommitsReturns(k, j) ==
    /\ runs[k].st = "active"
    /\ runs[k].kind = "commits"
    /\ j \in DOMAIN runs[k].ws
    /\ runs[k].ws[j].pc = "listing"
    /\ \E tie \in Ties :
         LET w == runs[k].ws[j]
             cl == ListCommits(w.repo.full_name, w.brs[w.bi].name, w.effFrom, runs[k].to)
             S0 == [Pack(k, tie) EXCEPT !.run.ws[j].pc = "commits",
                                        !.run.ws[j].cl = cl,
                                        !.run.ws[j].cs = [i \in DOMAIN cl |-> "idle"],
                                        !.run.ws[j].att = Append(@, "listed"),
                                        !.run.listed = @ + Len(cl)]
         IN Unpack(k, RepoPump(CommitPump(S0, j)))
    /\ UNCHANGED <<sched, env, op>>

\* client.listCommits rejects: the branch attempt fails
ListCommitsFails(k, j) ==
    /\ runs[k].st = "active"
    /\ runs[k].kind = "commits"
    /\ j \in DOMAIN runs[k].ws
    /\ runs[k].ws[j].pc = "listing"
    /\ ProviderMayFail
    /\ \E tie \in Ties :
         LET S0 == [Pack(k, tie) EXCEPT !.run.ws[j].att = Append(@, "listfail"),
                                        !.run.pfails = @ + 1]
         IN Unpack(k, RepoPump(BranchFailed(S0, j)))
    /\ env' = [env EXCEPT !.failures = @ + 1]
    /\ UNCHANGED <<sched, op>>

\* client.getCommitDetails fulfils (part_010:190): the commit is persisted
CommitDetailsReturns(k, j, i) ==
    /\ runs[k].st = "active"
    /\ runs[k].kind = "commits"
    /\ j \in DOMAIN runs[k].ws
    /\ runs[k].ws[j].pc = "commits"
    /\ i \in DOMAIN runs[k].ws[j].cs
    /\ runs[k].ws[j].cs[i] = "details"
    /\ \E tie \in Ties :
         Unpack(k, RepoPump(CommitPump(
             PersistCommit(Pack(k, tie), j, i, ProviderDetails(runs[k].ws[j].cl[i])), j)))
    /\ UNCHANGED <<sched, env, op>>

\* client.getCommitDetails rejects: caught at part_010:191, the commit is
\* persisted with empty details
CommitDetailsFails(k, j, i) ==
    /\ runs[k].st = "active"
    /\ runs[k].kind = "commits"
    /\ j \in DOMAIN runs[k].ws
    /\ runs[k].ws[j].pc = "commits"
    /\ i \in DOMAIN runs[k].ws[j].cs
    /\ runs[k].ws[j].cs[i] = "details"
    /\ ProviderMayFail
    /\ \E tie \in Ties :
         Unpack(k, RepoPump(CommitPump(
             PersistCommit([Pack(k, tie) EXCEPT !.run.pfails = @ + 1], j, i, NoDetails), j)))
    /\ env' = [env EXCEPT !.failures = @ + 1]
    /\ UNCHANGED <<sched, op>>

\* POST /api/repositories/sync arrives (routes/repositories.js:46-53)
SyncRepositoriesCall(k) ==
    /\ env.catalog
    /\ CanStart(k)
    /\ LET items == PlatformItems(db)
           run0 == [RunIdle EXCEPT !.st = "active", !.kind = "repositories",
                                   !.ws = [j \in DOMAIN items |-> CatalogWorkerIdle(items[j])],
                                   !.solo = (ActiveRuns = {})]
       IN Started(k, CatalogPump([Pack(k, "low") EXCEPT !.run = run0]))
    /\ UNCHANGED <<sched, env, op>>

\* POST /api/branches/sync arrives (routes/branches.js:26-33)
SyncBranchesCall(k) ==
    /\ env.catalog
    /\ CanStart(k)
    /\ LET items == SelectedRepos(db)
           run0 == [RunIdle EXCEPT !.st = "active", !.kind = "branches",
                                   !.ws = [j \in DOMAIN items |-> CatalogWorkerIdle(items[j])],
                                   !.solo = (ActiveRuns = {})]
       IN Started(k, CatalogPump([Pack(k, "low") EXCEPT !.run = run0]))
    /\ UNCHANGED <<sched, env, op>>

\* client.listRepositories / client.listBranches settles for worker j of a
\* catalog call, the provider having answered (ok) or failed
CatalogListSettles(k, j, ok) ==
    /\ runs[k].st = "active"
    /\ runs[k].kind \in {"repositories", "branches"}
    /\ j \in DOMAIN runs[k].ws
    /\ runs[k].ws[j].pc = "listing"
    /\ ok \/ ProviderMayFail
    /\ LET item == runs[k].ws[j].item
           S0 == [Pack(k, "low") EXCEPT !.run.pfails = IF ok THEN @ ELSE @ + 1]
           S1 == IF runs[k].kind = "repositories"
                 THEN LET r == listRepositories(item.type, item.name, ok)
                      IN IF r.threw THEN CatalogWorkerFailed(S0, j)
                         ELSE [UpsertRepositories(S0, item.id, r.repos)
                                  EXCEPT !.run.ws[j].pc = "done"]
                 ELSE IF ~ok THEN CatalogWorkerFailed(S0, j)
                 ELSE [UpsertBranches(S0, item.id, ProviderBranches(item.full_name))
                          EXCEPT !.run.ws[j].pc = "done",
                                 !.db.repositories[item.id].last_synced = TRUE]
       IN Unpack(k, CatalogPump(S1))
    /\ env' = [env EXCEPT !.failures = IF ok THEN @ ELSE @ + 1]
    /\ UNCHANGED <<sched, op>>

\* PUT /api/repositories/:id/select (routes/repositories.js:56-69)
SelectRepository(id, selected) ==
    /\ env.catalog
    /\ id \in DOMAIN db.repositories
    /\ db.repositories[id].is_selected # selected
    /\ db' = [db EXCEPT !.repositories[id].is_selected = selected]
    /\ UNCHANGED <<sched, runs, env, op>>

(***************************************************************************)
(* Specifications                                                          *)
(***************************************************************************)
MaxWorkers == 3     \* workers of one call: platforms, or selected repositories
MaxListed == 2      \* commits one listing returns at most

\* the store once repositories and branches are mirrored and selected
Mirrored(t2) ==
    [DbEmpty EXCEPT !.platforms = PlatformRows(t2),
                    !.repositories = RepositoryRows,
                    !.branches = BranchRows]

NoCalls == [k \in 1..MaxRuns |-> RunIdle]

\* no operation has run by itself yet
NoOp == [name |-> "none"]

\* calls one after the other against healthy providers; the clock may be so
\* coarse that their log entries share a timestamp
InitSequential ==
    /\ db = Mirrored("gitlab")
    /\ \E c \in BOOLEAN :
         env = [coarse |-> c, failures |-> 0, budget |-> 0, maxRuns |-> MaxRuns,
                maxActive |-> 1, catalog |-> FALSE]

\* calls that overlap in time, against providers that may fail
InitOverlap ==
    /\ db = Mirrored("gitlab")
    /\ env = [coarse |-> FALSE, failures |-> 0, budget |-> MaxFailures,
              maxRuns |-> MaxRuns - 1, maxActive |-> MaxActive, catalog |-> FALSE]

\* providers that fail, and a platform row whose type the code does not know
InitFaulty ==
    /\ \E t2 \in {"gitlab", "svn"} : db = Mirrored(t2)
    /\ env = [coarse |-> FALSE, failures |-> 0, budget |-> MaxFailures,
              maxRuns |-> MaxRuns, maxActive |-> 1, catalog |-> FALSE]

\* the catalog is built from the configured platforms alone
InitCatalog ==
    /\ \E t2 \in {"azure_devops", "svn"} :
         db = [DbEmpty EXCEPT !.platforms = PlatformRows(t2)]
    /\ env = [coarse |-> FALSE, failures |-> 0, budget |-> MaxFailures,
              maxRuns |-> MaxRuns - 1, maxActive |-> 1, catalog |-> TRUE]

\* the user changes the selection of mirrored repositories between and
\* during syncs
InitReselect ==
    /\ db = Mirrored("gitlab")
    /\ env = [coarse |-> FALSE, failures |-> 0, budget |-> 0,
              maxRuns |-> MaxRuns - 1, maxActive |-> 1, catalog |-> TRUE]

Init ==
    /\ sched = SchedIdle
    /\ runs = NoCalls
    /\ op = NoOp
    /\ \/ InitSequential
       \/ InitOverlap
       \/ InitFaulty
       \/ InitCatalog
       \/ InitReselect

Next ==
    \/ \E k \in 1..MaxRuns : SyncCommitsCall(k)
    \/ \E k \in 1..MaxRuns, j \in 1..MaxWorkers : ListCommitsReturns(k, j)
    \/ \E k \in 1..MaxRuns, j \in 1..MaxWorkers : ListCommitsFails(k, j)
    \/ \E k \in 1..MaxRuns, j \in 1..MaxWorkers, i \in 1..MaxListed :
         CommitDetailsReturns(k, j, i)
    \/ \E k \in 1..MaxRuns, j \in 1..MaxWorkers, i \in 1..MaxListed :
         CommitDetailsFails(k, j, i)
    \/ \E k \in 1..MaxRuns : SyncRepositoriesCall(k)
    \/ \E k \in 1..MaxRuns : SyncBranchesCall(k)
    \/ \E k \in 1..MaxRuns, j \in 1..MaxWorkers, ok \in BOOLEAN : CatalogListSettles(k, j, ok)
    \/ \E id \in 1..MaxWorkers, selected \in BOOLEAN : SelectRepository(id, selected)

Spec == Init /\ [][Next]_vars

\* syncCommits calls alone, one after the other, against providers that
\* fail more often, every provider call of which settles in the end
LiveInit ==
    /\ sched = SchedIdle
    /\ runs = NoCalls
    /\ op = NoOp
    /\ \E t2 \in {"gitlab", "svn"} : db = Mirrored(t2)
    /\ env = [coarse |-> FALSE, failures |-> 0, budget |-> MaxFailures + 1,
              maxRuns |-> MaxRuns - 1, maxActive |-> 1, catalog |-> FALSE]

LiveNext ==
    \/ \E k \in 1..MaxRuns : SyncCommitsCall(k)
    \/ \E k \in 1..MaxRuns, j \in 1..MaxWorkers : ListCommitsReturns(k, j)
    \/ \E k \in 1..MaxRuns, j \in 1..MaxWorkers : ListCommitsFails(k, j)
    \/ \E k \in 1..MaxRuns, j \in 1..MaxWorkers, i \in 1..MaxListed :
         CommitDetailsReturns(k, j, i)
    \/ \E k \in 1..MaxRuns, j \in 1..MaxWorkers, i \in 1..MaxListed :
         CommitDetailsFails(k, j, i)

\* some provider call is pending: one of them settles in the end.  This is
\* weaker than fairness for each call by itself, and enough as the calls
\* are finitely many.
ProviderCallSettles ==
    \/ \E k \in 1..MaxRuns, j \in 1..MaxWorkers :
         ListCommitsReturns(k, j) \/ ListCommitsFails(k, j)
    \/ \E k \in 1..MaxRuns, j \in 1..MaxWorkers, i \in 1..MaxListed :
         CommitDetailsReturns(k, j, i) \/ CommitDetailsFails(k, j, i)

\* ENABLED <<ProviderCallSettles>>_vars, spelled out: a provider call is
\* pending (a pending call can always return, and its return changes runs)
ProviderCallPending ==
    \E k \in 1..MaxRuns :
      /\ runs[k].st = "active"
      /\ \E j \in DOMAIN runs[k].ws :
           \/ runs[k].ws[j].pc = "listing"
           \/ /\ runs[k].ws[j].pc = "commits"
              /\ \E i \in DOMAIN runs[k].ws[j].cs : runs[k].ws[j].cs[i] = "details"

\* WF_vars(ProviderCallSettles) with its ENABLED replaced by the predicate
\* above
ProviderCallsSettle ==
    \/ []<>(~ProviderCallPending)
    \/ []<><<ProviderCallSettles>>_vars

LiveSpec == LiveInit /\ [][LiveNext]_vars /\ ProviderCallsSettle

SchedInit ==
    /\ sched = SchedIdle
    /\ db = DbEmpty
    /\ runs = NoCalls
    /\ op = NoOp
    /\ env = [coarse |-> FALSE, failures |-> 0, budget |-> 0, maxRuns |-> 0,
              maxActive |-> 0, catalog |-> FALSE]

SchedNext ==
    /\ \/ SchedCall
       \/ SchedDispatch
       \/ \E i \in 1..MaxItems : SchedSettle(i)
       \/ \E i \in 1..MaxItems : SchedReject(i)
       \/ \E i \in 1..MaxItems : SchedThen(i)
       \/ SchedRaceResume
       \/ SchedAll
    /\ UNCHANGED <<db, runs, env, op>>

SpecSched == SchedInit /\ [][SchedNext]_vars

(***************************************************************************)
(* The developer store by itself: commits arrive, resolver passes run and  *)
(* the user merges developers, in any order.                               *)
(***************************************************************************)
MaxStoredCommits == 3   \* commits the store holds at most
MaxDevelopers == 3      \* developer ids a merge request may name

\* the authors the providers report
AuthorPool ==
    { [name |-> NameBob, email |-> <<2, At, 24>>],                 \* bob, b@x
      [name |-> <<26, 5, 4>>, email |-> <<28, At, 24>>],           \* zed, B@x
      [name |-> <<18, 15, 2>>, email |-> <<18, At, 24>>],          \* rob, r@x
      [name |-> NameBob, email |-> EmailBob],                      \* bob, bob@y
      [name |-> NameAnnLee, email |-> EmailAnn],                   \* Ann Lee, ann@x
      [name |-> <<27, 14, 14, 5, Space, 38, 5, 5>>,
       email |-> <<1, At, 24>>],                                   \* Anne Lee, a@x
      [name |-> <<1, 14, 14, Space, 12, 5, 5>>,
       email |-> <<1, 14, 14, At, 25>>],                           \* ann lee, ann@y
      [name |-> <<5, 22, 5>>, email |-> <<EAcuteUpper, At, 26>>],  \* eve, E-acute@z
      [name |-> <<>>, email |-> <<15, At, 26>>],                   \* (none), o@z
      [name |-> NameBob, email |-> <<>>] }                         \* bob, ''

\* a sync stores a commit of author p (part_010:196-213); its developer is
\* NULL until a resolver pass.  op keeps whether the commit follows a merge
\* that moved an identity with its email, letter case aside, and to whom.
IngestCommit(p) ==
    /\ Len(db.commits) < MaxStoredCommits
    /\ db' = UpsertCommit(db, 1, 1,
                 [sha |-> <<"s1", "s2", "s3", "s4", "s5", "s6">>[Len(db.commits) + 1], committedAt |-> 1,
                  authorName |-> p.name, authorEmail |-> p.email,
                  isMergeCommit |-> FALSE,
                  message |-> [text |-> "work", len |-> 4, vaguePattern |-> FALSE,
                               hasSpace |-> FALSE]],
                 NoDetails)
    /\ op' = [name |-> "ingest",
              into |-> IF op.name = "merge"
                       THEN IF op.existed /\ op.done
                               /\ \E e \in op.moved : ToLowerCase(e) = ToLowerCase(p.email)
                            THEN op.target ELSE 0
                       ELSE 0]
    /\ UNCHANGED <<sched, runs, env>>

\* processIdentities() runs (part_010:376).  op keeps what the pass found:
\* the unmapped pairs in the order of the query, and the identities stored
\* before it; and what the ingest just before it kept.
ResolverPass ==
    /\ db' = processIdentities(db)
    /\ op' = [name |-> "resolve",
              pairs |-> DistinctPairs(db.commits, {}),
              ids |-> db.developer_identities,
              into |-> IF op.name = "ingest" THEN op.into ELSE 0]
    /\ UNCHANGED <<sched, runs, env>>

\* POST /api/developers/merge (routes/developers.js:54-73): mergeDevelopers,
\* then updateCanonicalName(target); an exception ends the request with 500.
\* op keeps the commit counts before the merge and the emails of the
\* identities the source had.
MergeCall(sourceId, targetId) ==
    /\ sourceId # targetId
    /\ LET r == mergeDevelopers(db, sourceId, targetId)
           top == IF TopNames(r.db, targetId) = {} THEN {<<>>} ELSE TopNames(r.db, targetId)
       IN /\ IF r.threw THEN db' = r.db
             ELSE \E name \in top : db' = updateCanonicalName(r.db, targetId, name)
          /\ op' = [name |-> "merge", source |-> sourceId, target |-> targetId,
                    existed |-> DeveloperExists(db, sourceId) /\ DeveloperExists(db, targetId),
                    sourceCommits |-> CommitCount(db, sourceId),
                    targetCommits |-> CommitCount(db, targetId),
                    moved |-> {db.developer_identities[i].email :
                                 i \in IdentitiesOf(db, sourceId)},
                    done |-> ~r.threw]
    /\ UNCHANGED <<sched, runs, env>>

IdentInit ==
    /\ sched = SchedIdle
    /\ runs = NoCalls
    /\ op = NoOp
    /\ db = Mirrored("gitlab")
    /\ env = [coarse |-> FALSE, failures |-> 0, budget |-> 0, maxRuns |-> 0,
              maxActive |-> 0, catalog |-> FALSE]

IdentNext ==
    \/ \E p \in AuthorPool : IngestCommit(p)
    \/ ResolverPass
    \/ \E s \in 1..MaxDevelopers, g \in 1..MaxDevelopers : MergeCall(s, g)

SpecIdent == IdentInit /\ [][IdentNext]_vars

(***************************************************************************)
(* C1: at no moment during runWithConcurrency are more than N workers in   *)
(* flight (started and not yet settled), for every limit N >= 1 and every  *)
(* item sequence; the set `executing` never holds more than N promises     *)
(* either.                                                                 *)
(***************************************************************************)
C1_ConcurrencyBound ==
    /\ Cardinality(InFlight(sched)) <= sched.n
    /\ Cardinality(Executing(sched)) <= sched.n

\* N = 3 with three workers in flight while further items wait their turn
C1_Witness ==
    /\ sched.n = 3
    /\ sched.len = 10
    /\ sched.loop = "race"
    /\ Cardinality(InFlight(sched)) = 3
    /\ sched.next <= sched.len
    /\ \E i \in 1..MaxItems : sched.status[i] = "done"

(***************************************************************************)
(* Properties                                                              *)
(***************************************************************************)
IsCommitsCall(k) == runs[k].st # "idle" /\ runs[k].kind = "commits"

\* the (repository, branch) pairs a syncCommits call went through
Targets(k) ==
    [j \in DOMAIN runs[k].ws |->
       [repo |-> runs[k].ws[j].repo.id,
        branches |-> [m \in DOMAIN runs[k].ws[j].brs |-> runs[k].ws[j].brs[m].name]]]

\* call k is a clean, non-forced repetition of call k - 1: the same window
\* over the same repositories and branches, one call after the other with no
\* call in between or alongside, and no provider failure in either
Rerun(k) ==
    /\ runs[k].st = "returned" /\ runs[k - 1].st = "returned"
    /\ runs[k].kind = "commits" /\ runs[k - 1].kind = "commits"
    /\ Targets(k) = Targets(k - 1)
    /\ runs[k].from = runs[k - 1].from /\ runs[k].to = runs[k - 1].to
    /\ ~runs[k].force
    /\ runs[k].solo /\ runs[k - 1].solo
    /\ runs[k].pfails = 0 /\ runs[k - 1].pfails = 0

(***************************************************************************)
(* C2: idempotence.  When syncCommits is run twice with the same window    *)
(* and force = false against an unchanged provider, the second run reports *)
(* success = 0, unless a stored commit was in the repair state.            *)
(***************************************************************************)
C2_Idempotence ==
    \A k \in 2..MaxRuns :
        (Rerun(k) /\ ~runs[k - 1].force /\ ~runs[k].repairAtStart)
            => runs[k].res.success = 0

(***************************************************************************)
(* C3: incremental resume.                                                 *)
(***************************************************************************)
\* in this step worker j of call k looks up the last sync of a branch and
\* issues listCommits for it
StartsListing(k, j) ==
    /\ runs'[k].st # "idle"
    /\ runs'[k].kind = "commits"
    /\ j \in DOMAIN runs'[k].ws
    /\ runs'[k].ws[j].pc = "listing"
    /\ IF runs[k].st = "idle" THEN TRUE
       ELSE \/ runs[k].ws[j].pc # "listing"
            \/ runs[k].ws[j].bi # runs'[k].ws[j].bi

SuccessLogs(repoId, branchId) ==
    {i \in DOMAIN db.sync_log :
        /\ db.sync_log[i].repository_id = repoId
        /\ db.sync_log[i].branch_id = branchId
        /\ db.sync_log[i].sync_type = "commits"
        /\ db.sync_log[i].status = "success"}

\* C3 as stated: the start is `from`, except when force is false and some
\* prior successful entry of the (repository, branch) has to_date D >= from;
\* then the range listed is [D, to]
C3_ResumeFromAPriorEntry ==
    [][\A k \in 1..MaxRuns, j \in 1..MaxWorkers :
         StartsListing(k, j) =>
           LET r == runs'[k]
               w == r.ws[j]
               D == {db.sync_log[i].to_date : i \in SuccessLogs(w.repo.id, w.branchId)}
           IN IF ~r.force /\ (\E d \in D : d >= r.from)
              THEN w.effFrom \in {d \in D : d >= r.from}
              ELSE w.effFrom = r.from]_vars

\* C3 as the code has it: only the most recent successful entry of the
\* (repository, branch) counts (any of them when several share the newest
\* timestamp).  The start is its to_date D when force is false and
\* D >= from, and `from` in every other case.
C3_ResumeFromLatestEntry ==
    [][\A k \in 1..MaxRuns, j \in 1..MaxWorkers :
         StartsListing(k, j) =>
           LET r == runs'[k]
               w == r.ws[j]
               c == SuccessLogs(w.repo.id, w.branchId)
               newest == {i \in c : \A m \in c :
                            db.sync_log[i].created_at >= db.sync_log[m].created_at}
           IN IF r.force \/ c = {}
              THEN w.effFrom = r.from
              ELSE \E i \in newest :
                     w.effFrom = IF db.sync_log[i].to_date >= r.from
                                 THEN db.sync_log[i].to_date ELSE r.from]_vars

\* a non-forced listing resumes from the latest entry while an older entry of
\* the same branch carries another to_date
C3_Witness ==
    \E k \in 1..MaxRuns :
      /\ IsCommitsCall(k)
      /\ ~runs[k].force
      /\ \E j \in DOMAIN runs[k].ws :
           LET w == runs[k].ws[j]
               c == SuccessLogs(w.repo.id, w.branchId)
           IN /\ w.pc = "listing"
              /\ w.effFrom > runs[k].from
              /\ \E i \in c : db.sync_log[i].to_date = w.effFrom
              /\ \E i \in c : db.sync_log[i].to_date # w.effFrom

(***************************************************************************)
(* C4: re-running a sync.                                                  *)
(***************************************************************************)
\* C4 as stated: after a sync that fetched its window and persisted what it
\* listed, the repetition reports none as success and every commit the
\* first sync ingested as skipped
C4_RerunSkipsAllIngested ==
    \A k \in 2..MaxRuns :
        (/\ Rerun(k)
         /\ runs[k - 1].full /\ runs[k - 1].res.failed = 0
         /\ ~runs[k].repairAtStart)
            => /\ runs[k].res.success = 0
               /\ runs[k].res.skipped >= runs[k - 1].res.success

\* C4 as the code has it: the repetition reports none as success or failed,
\* and as skipped exactly the commits its own listings return.  Those
\* listings resume at the last logged to_date, so commits ingested earlier
\* in the window are not listed again and not counted.
C4_RerunSkipsWhatItLists ==
    \A k \in 2..MaxRuns :
        (/\ Rerun(k)
         /\ runs[k - 1].full /\ runs[k - 1].res.failed = 0
         /\ ~runs[k].repairAtStart)
            => /\ runs[k].res.success = 0
               /\ runs[k].res.failed = 0
               /\ runs[k].res.total = 0
               /\ runs[k].res.skipped = runs[k].listed

\* a repetition that skips a commit, and fewer than the first sync ingested
C4_Witness ==
    \E k \in 2..MaxRuns :
        /\ Rerun(k)
        /\ runs[k - 1].full /\ runs[k - 1].res.failed = 0
        /\ ~runs[k].repairAtStart
        /\ runs[k].res.skipped >= 1
        /\ runs[k].res.skipped < runs[k - 1].res.success

(***************************************************************************)
(* C5: when listCommits has returned, each listed commit is skipped (no    *)
(* detail fetch, no write, skipped incremented) if and only if a row       *)
(* exists for (repository, sha) and force is false and the row is not in   *)
(* the repair state: stored lines_added > 0 while its commit_files'        *)
(* lines_added sum to zero or are absent.  Every other commit goes on to   *)
(* the detail fetch, a commit in the repair state even without force.      *)
(***************************************************************************)
ListingReturned(k, j) ==
    /\ runs[k].st = "active"
    /\ runs[k].kind = "commits"
    /\ j \in DOMAIN runs[k].ws
    /\ runs[k].ws[j].pc = "listing"
    /\ Len(runs'[k].ws[j].att) = Len(runs[k].ws[j].att) + 1
    /\ runs'[k].ws[j].att[Len(runs'[k].ws[j].att)] = "listed"

StoredRows(repoId, sha) ==
    {c \in DOMAIN db.commits :
        db.commits[c].repository_id = repoId /\ db.commits[c].sha = sha}

InRepairState(c) ==
    /\ db.commits[c].lines_added > 0
    /\ \A f \in DOMAIN db.commit_files :
         db.commit_files[f].commit_id = c => db.commit_files[f].lines_added = 0

C5_SkipIffStoredUnforcedIntact ==
    [][\A k \in 1..MaxRuns, j \in 1..MaxWorkers :
         ListingReturned(k, j) =>
           LET w == runs'[k].ws[j]
               skippedNow == {i \in DOMAIN w.cl : w.cs[i] = "skipped"}
           IN /\ \A i \in DOMAIN w.cl :
                   /\ w.cs[i] \in {"skipped", "details"}
                   /\ w.cs[i] = "skipped" <=>
                        /\ StoredRows(w.repo.id, w.cl[i]) # {}
                        /\ ~runs[k].force
                        /\ \A c \in StoredRows(w.repo.id, w.cl[i]) : ~InRepairState(c)
              /\ runs'[k].res.skipped = runs[k].res.skipped + Cardinality(skippedNow)
              /\ Len(db'.commits) = Len(db.commits)
              /\ db'.commit_files = db.commit_files
              /\ db'.commit_flags = db.commit_flags]_vars

\* without force, a stored commit in the repair state awaits its details
\* again while another listed commit of the call was skipped
C5_Witness ==
    \E k \in 1..MaxRuns :
      /\ IsCommitsCall(k)
      /\ ~runs[k].force
      /\ runs[k].res.skipped >= 1
      /\ \E j \in DOMAIN runs[k].ws :
           LET w == runs[k].ws[j]
           IN /\ w.pc = "commits"
              /\ \E i \in DOMAIN w.cs :
                   /\ w.cs[i] = "details"
                   /\ \E c \in StoredRows(w.repo.id, w.cl[i]) : InRepairState(c)

(***************************************************************************)
(* C6: whatever syncCommits calls have run, forced or not, one after the   *)
(* other or overlapping, the commits table holds at most one row per       *)
(* (repository, sha).                                                      *)
(***************************************************************************)
C6_OneRowPerRepositorySha ==
    \A c1, c2 \in DOMAIN db.commits :
        (/\ db.commits[c1].repository_id = db.commits[c2].repository_id
         /\ db.commits[c1].sha = db.commits[c2].sha) => c1 = c2

\* two overlapping non-forced calls both found sha "b" missing, fetched its
\* details and persisted it
C6_Witness ==
    \E k1, k2 \in 1..MaxRuns :
      /\ k1 < k2
      /\ IsCommitsCall(k1) /\ IsCommitsCall(k2)
      /\ ~runs[k1].solo /\ ~runs[k2].solo
      /\ ~runs[k1].force /\ ~runs[k2].force
      /\ \A k \in {k1, k2} :
           \E j \in DOMAIN runs[k].ws :
             /\ runs[k].ws[j].repo.id = 1
             /\ \E i \in DOMAIN runs[k].ws[j].cs :
                  runs[k].ws[j].cl[i] = "b" /\ runs[k].ws[j].cs[i] = "success"

(***************************************************************************)
(* C7: every (repository, branch) attempt of a syncCommits call writes     *)
(* exactly one sync_log row of kind 'commits': 'success' when the listing  *)
(* succeeded, even if commits of it failed to persist, and 'failed' with   *)
(* the error message otherwise.                                            *)
(***************************************************************************)
\* the rows call k wrote for the repository of its worker j, oldest first
AttemptLogs(k, j) ==
    SelectSeq(db.sync_log,
              LAMBDA row : row.rid = k /\ row.repository_id = runs[k].ws[j].repo.id)

BranchRowId(repoId, name) ==
    CHOOSE b \in DOMAIN db.branches :
        db.branches[b].repository_id = repoId /\ db.branches[b].name = name

C7_OneLogPerAttempt ==
    \A k \in 1..MaxRuns :
      IsCommitsCall(k) =>
        \A j \in DOMAIN runs[k].ws :
          LET w == runs[k].ws[j]
              logs == AttemptLogs(k, j)
              \* attempts that ended: all but the one whose commits are in progress
              n == Len(w.att) - (IF w.pc = "commits" THEN 1 ELSE 0)
          IN /\ Len(logs) = n
             /\ Len(w.att) <= Len(w.brs)
             /\ \A m \in 1..n :
                  /\ logs[m].sync_type = "commits"
                  /\ logs[m].to_date = runs[k].to
                  /\ IF w.att[m] = "listed"
                     THEN /\ logs[m].status = "success"
                          /\ ~logs[m].error_message
                          /\ logs[m].branch_id = BranchRowId(w.repo.id, w.brs[m].name)
                     ELSE /\ logs[m].status = "failed"
                          /\ logs[m].error_message
                          /\ logs[m].branch_id = w.brs[m].id
                          /\ logs[m].from_date = runs[k].from

\* a branch whose listing succeeded and one of whose commits failed to
\* persist is logged 'success', next to a failed attempt of the same call
C7_Witness ==
    \E k \in 1..MaxRuns :
      /\ IsCommitsCall(k)
      /\ \E row \in DOMAIN db.sync_log :
           db.sync_log[row].rid = k /\ db.sync_log[row].status = "failed"
      /\ \E j \in DOMAIN runs[k].ws :
           LET w == runs[k].ws[j]
               logs == AttemptLogs(k, j)
           IN /\ w.pc # "commits"
              /\ w.att # <<>>
              /\ w.att[Len(w.att)] = "listed"
              /\ \E i \in DOMAIN w.cs : w.cs[i] = "failed"
              /\ Len(logs) = Len(w.att)
              /\ logs[Len(logs)].status = "success"

(***************************************************************************)
(* C8: failure isolation.  Provided every provider call eventually         *)
(* settles, a syncCommits call eventually returns with every branch of     *)
(* every selected repository logged 'success' or 'failed', whatever fails  *)
(* in sibling branches or repositories.                                    *)
(***************************************************************************)
AllBranchesLogged(k) ==
    \A j \in DOMAIN runs[k].ws :
      LET w == runs[k].ws[j]
          logs == AttemptLogs(k, j)
          stored == BranchesOf(db, w.repo)
      IN /\ [m \in DOMAIN w.brs |-> w.brs[m].name] = [m \in DOMAIN stored |-> stored[m].name]
         /\ Len(logs) = Len(w.brs)
         /\ \A m \in DOMAIN logs : logs[m].status \in {"success", "failed"}

C8_EveryBranchEventuallyLogged ==
    \A k \in 1..MaxRuns :
      IsCommitsCall(k) ~> (runs[k].st = "returned" /\ AllBranchesLogged(k))

\* a call returned although the first branch of a repository failed at the
\* provider: the sibling branch was listed and logged, as was the sibling
\* repository
C8_Witness ==
    \E k \in 1..MaxRuns :
      /\ IsCommitsCall(k)
      /\ runs[k].st = "returned"
      /\ AllBranchesLogged(k)
      /\ \E j1, j2 \in DOMAIN runs[k].ws :
           /\ j1 # j2
           /\ runs[k].ws[j1].att = <<"listfail", "listed">>
           /\ runs[k].ws[j2].att = <<"listed">>

(***************************************************************************)
(* C9: whatever provider calls fail, and also when the platform kind of an *)
(* item is unknown, syncRepositories, syncBranches and syncCommits return  *)
(* their result object: no worker throws, no call rejects, and the failure *)
(* of an item is recorded in errors.                                       *)
(***************************************************************************)
ErrorsAt(k, where) ==
    Len(SelectSeq(runs[k].res.errors, LAMBDA e : e.at = where))

C9_SyncCallsReturn ==
    \A k \in 1..MaxRuns :
      /\ runs[k].st # "rejected"
      /\ \A j \in DOMAIN runs[k].ws : runs[k].ws[j].pc # "threw"
      /\ runs[k].st = "active" =>
           \E j \in DOMAIN runs[k].ws : runs[k].ws[j].pc \in {"listing", "commits"}
      /\ IsCommitsCall(k) =>
           ErrorsAt(k, "branch") =
             SumSeq([j \in DOMAIN runs[k].ws |->
                       Len(SelectSeq(runs[k].ws[j].att, LAMBDA a : a # "listed"))])
      /\ (runs[k].st # "idle" /\ runs[k].kind # "commits") =>
           \A j \in DOMAIN runs[k].ws :
             (runs[k].ws[j].pc = "done" /\ runs[k].ws[j].item.type \notin KnownTypes)
               => \E e \in DOMAIN runs[k].res.errors :
                    runs[k].res.errors[e] =
                      [at |-> runs[k].kind, item |-> runs[k].ws[j].item.id]

\* syncRepositories returned with a platform's failure in errors, then
\* syncBranches returned with a repository whose listBranches failed
C9_Witness ==
    /\ runs[1].kind = "repositories" /\ runs[1].st = "returned"
    /\ runs[1].res.errors # <<>>
    /\ runs[2].kind = "branches" /\ runs[2].st = "returned"
    /\ runs[2].pfails = 1
    /\ runs[2].res.failed = 1

(***************************************************************************)
(* C10: within one syncCommits call processIdentities is invoked exactly   *)
(* once, and only after every repository worker has finished and every     *)
(* (repository, branch) attempt of the call is logged.                     *)
(***************************************************************************)
C10_ResolverOnceAfterWorkers ==
    /\ \A k \in 1..MaxRuns :
         IsCommitsCall(k) =>
           /\ runs[k].identCalls = (IF runs[k].st = "returned" THEN 1 ELSE 0)
           /\ runs[k].identCalls = 1 =>
                \A j \in DOMAIN runs[k].ws :
                  /\ runs[k].ws[j].pc = "done"
                  /\ Len(AttemptLogs(k, j)) = Len(runs[k].ws[j].brs)
    \* what the resolver does is there once the calls have returned: no
    \* commit is left with a null developer
    /\ ActiveRuns = {} => \A c \in DOMAIN db.commits : db.commits[c].developer_id # 0

\* a call with two repository workers returned with its commits attributed
C10_Witness ==
    \E k \in 1..MaxRuns :
      /\ IsCommitsCall(k)
      /\ runs[k].st = "returned"
      /\ runs[k].identCalls = 1
      /\ Len(runs[k].ws) >= 2
      /\ runs[k].res.success >= 2
      /\ runs[k].res.errors # <<>>
      /\ \A c \in DOMAIN db.commits : db.commits[c].developer_id # 0

(***************************************************************************)
(* analyzeCommit by itself, on commits around its thresholds               *)
(***************************************************************************)
MaxLinesAdded == 502     \* linesAdded of the commits analyzed, at most
MaxLinesRemoved == 2     \* linesRemoved, at most
MaxFilesChanged == 22    \* filesChanged, at most

AnalyzeInit ==
    /\ sched = SchedIdle
    /\ runs = NoCalls
    /\ db = DbEmpty
    /\ env = [coarse |-> FALSE, failures |-> 0, budget |-> 0, maxRuns |-> 0,
              maxActive |-> 0, catalog |-> FALSE]
    /\ \E a \in 0..MaxLinesAdded, r \in 0..MaxLinesRemoved, f \in 0..MaxFilesChanged,
          m \in { [text |-> "", len |-> 0, vaguePattern |-> FALSE, hasSpace |-> FALSE],
                  [text |-> "fix", len |-> 3, vaguePattern |-> TRUE, hasSpace |-> FALSE],
                  [text |-> "refactoring-all", len |-> 15, vaguePattern |-> FALSE,
                   hasSpace |-> FALSE],
                  [text |-> "reorganise-everything-again", len |-> 27,
                   vaguePattern |-> FALSE, hasSpace |-> FALSE],
                  [text |-> "Refactor billing module", len |-> 23,
                   vaguePattern |-> FALSE, hasSpace |-> TRUE] } :
         op = [name |-> "commit",
               commit |-> [message |-> m, linesAdded |-> a, linesRemoved |-> r,
                           filesChanged |-> f, files |-> <<>>]]

\* part_010:235  const flags = analyzeCommit(commitData)
AnalyzeCommitCall ==
    /\ op.name = "commit"
    /\ op' = [name |-> "analyzed", commit |-> op.commit, flags |-> analyzeCommit(op.commit)]
    /\ UNCHANGED <<sched, db, runs, env>>

AnalyzeNext == AnalyzeCommitCall

SpecAnalyze == AnalyzeInit /\ [][AnalyzeNext]_vars

(***************************************************************************)
(* The provider clients by themselves, request by request.                 *)
(*                                                                         *)
(* A call of a client method is the record                                 *)
(*   variant, method   which client and which method                       *)
(*   st      "pending" (awaiting the request `req`), "returned", "threw"   *)
(*   req     the request awaited: its kind, the page and the item it is for*)
(*   left    the items (projects, changed files) still to be requested     *)
(*   log     the requests issued so far that have settled, with outcome    *)
(* A request ends in one of                                                *)
(*   "more"      a full page: the method asks for the next one             *)
(*   "last"      a short or empty page, or the answer of a single request  *)
(*   "notfound"  HTTP 404                                                  *)
(*   "error"     a network or auth failure                                 *)
(***************************************************************************)
MaxPages == 2          \* pages a provider answers a listing with, at most
MaxClientItems == 2    \* projects of an organisation / files of a commit, at most

Request(kind, page, item) == [kind |-> kind, page |-> page, item |-> item]

\* the request awaited has settled with `out`, and the method returns or
\* throws (st), or goes on to await the request req
Ends(c, out, st) ==
    [c EXCEPT !.st = st, !.log = Append(@, [req |-> c.req, out |-> out])]
Awaits(c, out, req) ==
    [c EXCEPT !.req = req, !.log = Append(@, [req |-> c.req, out |-> out])]

\* a listing loop that has no try/catch: GitHub listBranches / listCommits
\* (part_009:116-182), GitLab listBranches / listCommits (gitlab.js:144-212)
PagedStep(c, out) ==
    IF out = "more" THEN Awaits(c, out, Request("page", c.req.page + 1, 0))
    ELSE IF out = "last" THEN Ends(c, out, "returned")
    ELSE Ends(c, out, "threw")

\* listRepositories of GitHub (part_009:67-111) and GitLab (gitlab.js:80-139):
\* every page asks the organisation (group) first and, on 404, the user;
\* the outer catch of the loop body logs any other failure and breaks
SwallowingListStep(c, out) ==
    IF out = "more" THEN Awaits(c, out, Request("group", c.req.page + 1, 0))
    ELSE IF out = "last" THEN Ends(c, out, "returned")
    ELSE IF out = "notfound" /\ c.req.kind = "group"
    THEN Awaits(c, out, Request("user", c.req.page, 0))
    ELSE Ends(c, out, "returned")

\* the next item of a loop whose body catches its own failures
NextItem(c, out, kind) ==
    IF c.left = 0 THEN Ends(c, out, "returned")
    ELSE [Awaits(c, out, Request(kind, 1, c.req.item + 1)) EXCEPT !.left = c.left - 1]

\* part_009:67-205
GitHubStep(c, out, n) ==
    IF c.method = "listRepositories" THEN SwallowingListStep(c, out)
    ELSE IF c.method = "getCommitDetails"
    THEN IF out = "last" THEN Ends(c, out, "returned") ELSE Ends(c, out, "threw")
    ELSE PagedStep(c, out)

\* gitlab.js:80-242; getCommitDetails asks for the commit, then for its diff
GitLabStep(c, out, n) ==
    IF c.method = "listRepositories" THEN SwallowingListStep(c, out)
    ELSE IF c.method = "getCommitDetails"
    THEN IF out # "last" THEN Ends(c, out, "threw")
         ELSE IF c.req.kind = "commit" THEN Awaits(c, out, Request("diff", 1, 0))
         ELSE Ends(c, out, "returned")
    ELSE PagedStep(c, out)

\* analysis.js:377-540 (the Azure DevOps client); n is the number of
\* projects, or of changed files, the answer names.  The repositories of a
\* project are asked for inside a try/catch (386-403), and so is the content
\* of each changed file (getFileChangeStats, 548-559); a changed file is
\* taken to be an added text file, which costs one request.
AzureStep(c, out, n) ==
    IF c.method = "listRepositories"
    THEN IF c.req.kind = "projects"
         THEN IF out = "last" THEN NextItem([c EXCEPT !.left = n], out, "repos")
              ELSE Ends(c, out, "threw")
         ELSE NextItem(c, out, "repos")
    ELSE IF c.method = "getCommitDetails"
    THEN IF c.req.kind = "commit"
         THEN IF out = "last" THEN Awaits(c, out, Request("changes", 1, 0))
              ELSE Ends(c, out, "threw")
         ELSE IF c.req.kind = "changes"
         THEN IF out = "last" THEN NextItem([c EXCEPT !.left = n], out, "file")
              ELSE Ends(c, out, "threw")
         ELSE NextItem(c, out, "file")
    ELSE IF out = "last" THEN Ends(c, out, "returned") ELSE Ends(c, out, "threw")

\* part_010:46-57  the client a platform row gets
ClientStep(c, out, n) ==
    IF c.variant = "github" THEN GitHubStep(c, out, n)
    ELSE IF c.variant = "gitlab" THEN GitLabStep(c, out, n)
    ELSE AzureStep(c, out, n)

\* the method is called: client.listRepositories() (part_010:80),
\* listBranches (134), listCommits (329), getCommitDetails (190)
ClientCall(variant, method) ==
    /\ op.name = "none" \/ (op.name = "call" /\ op.st # "pending")
    /\ LET first == IF method = "listRepositories"
                    THEN IF variant = "azure_devops" THEN "projects" ELSE "group"
                    ELSE IF method = "getCommitDetails" THEN "commit"
                    ELSE "page"
       IN op' = [name |-> "call", variant |-> variant, method |-> method,
                 st |-> "pending", req |-> Request(first, 1, 0), left |-> 0,
                 log |-> <<>>]
    /\ UNCHANGED <<sched, db, runs, env>>

\* the request the call awaits settles; only the listings of GitHub and
\* GitLab are paged
RequestSettles(out, n) ==
    /\ op.name = "call"
    /\ op.st = "pending"
    /\ out = "more" => /\ op.variant # "azure_devops"
                       /\ op.req.kind \in {"page", "group", "user"}
                       /\ op.req.page < MaxPages
    /\ op' = ClientStep(op, out, n)
    /\ UNCHANGED <<sched, db, runs, env>>

ClientInit ==
    /\ sched = SchedIdle
    /\ runs = NoCalls
    /\ db = DbEmpty
    /\ op = NoOp
    /\ env = [coarse |-> FALSE, failures |-> 0, budget |-> 0, maxRuns |-> 0,
              maxActive |-> 0, catalog |-> FALSE]

ClientNext ==
    \/ \E v \in {"azure_devops", "github", "gitlab"},
          m \in {"listRepositories", "listBranches", "listCommits", "getCommitDetails"} :
         ClientCall(v, m)
    \/ \E out \in {"more", "last", "notfound", "error"}, n \in 0..MaxClientItems :
         RequestSettles(out, n)

SpecClient == ClientInit /\ [][ClientNext]_vars

(***************************************************************************)
(* The diff analysis by itself (utils/diff-parser.js, analysis.js:82-91).  *)
(*                                                                         *)
(* A diff text is the sequence of its lines, and a line is kept as what    *)
(* the parser reads of it:                                                 *)
(*   "git"      diff --git a/p b/p          "old", "new"   --- a/p, +++ b/p *)
(*   "hunk"     @@ -1,2 +1,2 @@             "badhunk"  @@ that the hunk     *)
(*                                                     pattern rejects     *)
(*   "+code" "-code"        an added / removed line of code                *)
(*   "+comment" "-comment"  an added / removed line that one of the        *)
(*                          comment patterns matches once trimmed          *)
(*   "+blank"   an added line of white space                               *)
(*   "ctx"      a context line              "text"  any other line         *)
(***************************************************************************)
MaxDiffLines == 4     \* lines of a diff text, at most
MaxChanges == 2       \* changed paths the Azure DevOps diffs API names, at most

\* diff-parser.js:10-91  the files of a diff, each with its hunks, each hunk
\* with its lines; a line that belongs to no hunk is dropped
parseDiff(diffContent) ==
    LET RECURSIVE Parse(_, _, _, _)
        \* files pushed so far, whether a file is current, its hunks, inHunk
        Parse(i, files, cur, inHunk) ==
            IF i > Len(diffContent)
            THEN IF cur.open THEN Append(files, [hunks |-> cur.hunks]) ELSE files
            ELSE LET line == diffContent[i]
                 IN IF line = "git"
                    THEN Parse(i + 1,
                               IF cur.open THEN Append(files, [hunks |-> cur.hunks])
                               ELSE files,
                               [open |-> TRUE, hunks |-> <<>>], FALSE)
                    ELSE IF ~cur.open THEN Parse(i + 1, files, cur, inHunk)
                    ELSE IF line = "hunk"
                    THEN Parse(i + 1, files,
                               [cur EXCEPT !.hunks = Append(@, <<>>)], TRUE)
                    ELSE IF line = "badhunk" THEN Parse(i + 1, files, cur, TRUE)
                    ELSE IF inHunk /\ Len(cur.hunks) > 0
                            /\ line \in {"+code", "+comment", "+blank",
                                         "-code", "-comment", "ctx"}
                    THEN Parse(i + 1, files,
                               [cur EXCEPT !.hunks[Len(cur.hunks)] = Append(@, line)],
                               inHunk)
                    ELSE Parse(i + 1, files, cur, inHunk)
    IN Parse(1, <<>>, [open |-> FALSE, hunks |-> <<>>], FALSE)

\* diff-parser.js:99-130  no added or removed line with content fails the
\* comment patterns, and the diff names a file
isCommentOnlyChange(diffContent) ==
    LET files == parseDiff(diffContent)
    IN /\ \A f \in DOMAIN files : \A h \in DOMAIN files[f].hunks :
             \A l \in DOMAIN files[f].hunks[h] :
                files[f].hunks[h][l] \notin {"+code", "-code"}
       /\ Len(files) > 0

\* analysis.js:641-691  AzureDevOpsClient.getCommitDiff when its requests
\* succeed: '' for a commit without parent, three header lines per changed
\* path, or a sentence when no change has a path
getCommitDiff(hasParent, changes) ==
    LET RECURSIVE Headers(_)
        Headers(n) == IF n = 0 THEN <<>> ELSE <<"git", "old", "new">> \o Headers(n - 1)
    IN IF ~hasParent THEN <<>>
       ELSE IF changes = 0 THEN <<"text">>
       ELSE Headers(changes)

\* analysis.js:82-91  analyzeCommit(commit, diffContent): whether the
\* comment_only flag is pushed; an empty text is falsy
AnalyzeDiff(diffContent) ==
    /\ op.name = "none"
    /\ op' = [name |-> "diff", diff |-> diffContent, azure |-> FALSE,
              comment_only |-> diffContent # <<>> /\ isCommentOnlyChange(diffContent)]
    /\ UNCHANGED <<sched, db, runs, env>>

\* the same on the text AzureDevOpsClient.getCommitDiff returns
AnalyzeAzureDiff(hasParent, changes) ==
    /\ op.name = "none"
    /\ LET diffContent == getCommitDiff(hasParent, changes)
       IN op' = [name |-> "diff", diff |-> diffContent, azure |-> TRUE,
                 comment_only |-> diffContent # <<>> /\ isCommentOnlyChange(diffContent)]
    /\ UNCHANGED <<sched, db, runs, env>>

DiffNext ==
    \/ \E n \in 0..MaxDiffLines :
         \E diffContent \in [1..n -> {"git", "old", "new", "hunk", "badhunk", "+code",
                                      "+comment", "+blank", "-code", "-comment", "ctx",
                                      "text"}] :
            AnalyzeDiff(diffContent)
    \/ \E hasParent \in BOOLEAN, changes \in 0..MaxChanges :
         AnalyzeAzureDiff(hasParent, changes)

SpecDiff == ClientInit /\ [][DiffNext]_vars

(***************************************************************************)
(* Properties of the developer store (SpecIdent)                           *)
(***************************************************************************)
\* the developer ids on the stored commits of author pair p
DevelopersOfPair(p) ==
    {db.commits[i].developer_id : i \in
       {i \in DOMAIN db.commits : /\ db.commits[i].author_name = p.name
                                  /\ db.commits[i].author_email = p.email}}

(***************************************************************************)
(* C11: after a resolver pass, every commit with a non-empty author_email  *)
(* references a developer, namely the one that owns the identity whose     *)
(* email matches the commit's case-insensitively.                          *)
(***************************************************************************)
C11_ResolverAttributesEveryCommit ==
    op.name = "resolve" =>
        \A i \in DOMAIN db.commits :
            db.commits[i].author_email # <<>> =>
                /\ db.commits[i].developer_id # 0
                /\ {db.developer_identities[n].developer_id : n \in
                      {n \in DOMAIN db.developer_identities :
                         ToLowerCase(db.developer_identities[n].email)
                           = ToLowerCase(db.commits[i].author_email)}}
                     = {db.commits[i].developer_id}

(***************************************************************************)
(* C12: identity transitivity.  When one resolver pass meets three author  *)
(* pairs A, B, C, with A and B sharing an email and B and C sharing an     *)
(* email domain with first names closer than 3 edits, the commits of A, B  *)
(* and C end up with one developer.                                        *)
(***************************************************************************)
C12_IdentityTransitivity ==
    op.name = "resolve" =>
        LET Pairs == {op.pairs[i] : i \in DOMAIN op.pairs}
        IN \A A \in Pairs, B \in Pairs, C \in Pairs :
            (/\ A # B /\ SameEmail(A, B)
             /\ ~SameEmail(B, C) /\ SimilarFirstName(B, C))
                => \E dev \in 1..Len(db.developers) :
                      /\ DevelopersOfPair(A) = {dev}
                      /\ DevelopersOfPair(B) = {dev}
                      /\ DevelopersOfPair(C) = {dev}

(***************************************************************************)
(* C13: rule priority.  A new pair (no stored identity has its email) that *)
(* matches some stored identity by domain and first name (rule 2) is bound *)
(* to a developer it matches under rule 2, also when an identity of        *)
(* another developer that matches only by full name (rule 3) is stored     *)
(* before.                                                                 *)
(***************************************************************************)
C13_FirstRuleDecides ==
    (op.name = "resolve" /\ Len(op.pairs) = 1) =>
        LET P == [name |-> op.pairs[1].name, email |-> ToLowerCase(op.pairs[1].email)]
            byName == {i \in DOMAIN op.ids : SimilarFirstName(P, op.ids[i])}
        IN (/\ P.name # <<>>
            /\ \A i \in DOMAIN op.ids : ~SameEmail(P, op.ids[i])
            /\ byName # {})
               => DevelopersOfPair(op.pairs[1]) \subseteq
                     {op.ids[i].developer_id : i \in byName}

(***************************************************************************)
(* C14: whatever resolver passes and merges have run, no two identity rows *)
(* carry the same email, letter case aside: an email belongs to one        *)
(* developer at a time.                                                    *)
(***************************************************************************)
C14_EmailOwnedOnce ==
    \A i \in DOMAIN db.developer_identities, j \in DOMAIN db.developer_identities :
        i # j => ToLowerCase(db.developer_identities[i].email)
                   # ToLowerCase(db.developer_identities[j].email)

\* after a merge, two commits whose emails differ in letter case only are
\* both attributed, and one identity carries that email
C14_Witness ==
    /\ op.name = "merge" /\ op.done
    /\ \E i \in DOMAIN db.commits, j \in DOMAIN db.commits :
         /\ db.commits[i].author_email # db.commits[j].author_email
         /\ ToLowerCase(db.commits[i].author_email) = ToLowerCase(db.commits[j].author_email)
         /\ db.commits[i].developer_id # 0
         /\ db.commits[j].developer_id # 0
         /\ Cardinality({m \in DOMAIN db.developer_identities :
                           ToLowerCase(db.developer_identities[m].email)
                             = ToLowerCase(db.commits[i].author_email)}) = 1
    /\ Len(db.developer_identities) >= 2

(***************************************************************************)
(* C15: merge conservation.  After mergeDevelopers(source, target) on two  *)
(* existing, different developers, target has as many commits as source    *)
(* and target had together before, and source is gone.                     *)
(***************************************************************************)
C15_MergeConservation ==
    (op.name = "merge" /\ op.existed) =>
        /\ op.done
        /\ CommitCount(db, op.target) = op.sourceCommits + op.targetCommits
        /\ ~DeveloperExists(db, op.source)
        /\ CommitCount(db, op.source) = 0

\* a merge of two developers that both had commits
C15_Witness ==
    /\ op.name = "merge" /\ op.existed /\ op.done
    /\ op.sourceCommits >= 1 /\ op.targetCommits >= 1
    /\ CommitCount(db, op.target) >= 2

(***************************************************************************)
(* C16: canonical name after a merge.                                      *)
(***************************************************************************)
\* C16 as stated: the display name is a most frequent name among the
\* target's identities, and among several of them the one stored first
C16_MostFrequentNameFirstStored ==
    (op.name = "merge" /\ op.existed /\ op.done /\ IdentitiesOf(db, op.target) # {}) =>
        LET cn == db.developers[op.target].canonical_name
            \* the row id of the first identity of the target with a name
            FirstWithName(name) ==
                MinOf({i \in IdentitiesOf(db, op.target) :
                         db.developer_identities[i].name = name})
        IN /\ cn \in TopNames(db, op.target)
           /\ \A n \in TopNames(db, op.target) :
                 FirstWithName(cn) <= FirstWithName(n)

\* C16 as the code has it: the display name is a most frequent name among
\* the target's identities; which one of several is not determined
C16_MostFrequentName ==
    (op.name = "merge" /\ op.existed /\ op.done /\ IdentitiesOf(db, op.target) # {}) =>
        db.developers[op.target].canonical_name \in TopNames(db, op.target)

\* a merge after which one name is more frequent than another among the
\* target's identities, and is not the name of its first identity
C16_Witness ==
    /\ op.name = "merge" /\ op.existed /\ op.done
    /\ Cardinality(IdentitiesOf(db, op.target)) >= 3
    /\ Cardinality(TopNames(db, op.target)) = 1
    /\ db.developers[op.target].canonical_name \in TopNames(db, op.target)
    /\ db.developer_identities[MinOf(IdentitiesOf(db, op.target))].name
         \notin TopNames(db, op.target)

(***************************************************************************)
(* C17: the flag thresholds of analyzeCommit are exact at the boundary.    *)
(* A commit with linesAdded + linesRemoved = 10 gets no small_vague_commit *)
(* whatever its message, and one with 9 and a vague first line gets it; a  *)
(* commit with exactly 500 changed lines and at most 20 files gets no      *)
(* large_commit, and one with 501 changed lines or 21 files gets it.       *)
(***************************************************************************)
HasFlag(flags, type) == \E i \in DOMAIN flags : flags[i] = type

C17_ThresholdsExact ==
    op.name = "analyzed" =>
        LET total == op.commit.linesAdded + op.commit.linesRemoved
            files == op.commit.filesChanged
        IN /\ total = 10 => ~HasFlag(op.flags, "small_vague_commit")
           /\ (total = 9 /\ isVagueMessage(op.commit.message))
                 => HasFlag(op.flags, "small_vague_commit")
           /\ (total = 500 /\ files <= 20) => ~HasFlag(op.flags, "large_commit")
           /\ (total = 501 \/ files = 21) => HasFlag(op.flags, "large_commit")

\* a commit of exactly 10 lines with the message "fix" and 20 files was
\* analyzed and got neither flag
C17_Witness ==
    /\ op.name = "analyzed"
    /\ op.commit.linesAdded + op.commit.linesRemoved = 10
    /\ op.commit.message.vaguePattern
    /\ op.commit.filesChanged = 20
    /\ op.flags = <<>>

(***************************************************************************)
(* C18: for every client and each of listRepositories, listBranches,       *)
(* listCommits and getCommitDetails, a call during which a request failed  *)
(* with a network or auth error ends by throwing, not by returning a       *)
(* partial or empty result, and no failed request is issued again.         *)
(***************************************************************************)
C18_FailuresAreThrown ==
    (op.name = "call" /\ op.st # "pending") =>
        /\ (\E i \in DOMAIN op.log : op.log[i].out = "error") => op.st = "threw"
        /\ \A i \in DOMAIN op.log, j \in DOMAIN op.log :
              (i < j /\ op.log[i].req = op.log[j].req)
                 => op.log[i].out \in {"more", "last"}

(***************************************************************************)
(* C19: in syncRepositories a platform whose listing fails gets an entry   *)
(* of its own in errors[], and a platform whose listing succeeds has its   *)
(* repositories upserted whatever happened to the other platforms.         *)
(***************************************************************************)
C19_FailedPlatformReported ==
    [][\A k \in 1..MaxRuns :
          (runs[k].st = "active" /\ runs[k].kind = "repositories") =>
             \* the workers whose provider listing settles in this step
             \A j \in {j \in DOMAIN runs[k].ws : /\ j \in DOMAIN runs'[k].ws
                                                /\ runs[k].ws[j].pc = "listing"
                                                /\ runs'[k].ws[j].pc = "done"} :
                LET item == runs[k].ws[j].item
                    repos == ProviderRepositories(item.name)
                IN IF runs'[k].pfails > runs[k].pfails
                   THEN \E i \in DOMAIN runs'[k].res.errors :
                           /\ i > Len(runs[k].res.errors)
                           /\ runs'[k].res.errors[i] = [at |-> "repositories", item |-> item.id]
                   ELSE \A i \in DOMAIN repos :
                           \E r \in DOMAIN db'.repositories :
                              /\ db'.repositories[r].platform_id = item.id
                              /\ db'.repositories[r].external_id = repos[i].id]_vars

(***************************************************************************)
(* C20: every provider call that fails during syncCommits, listCommits or  *)
(* getCommitDetails, adds an entry to the errors[] of the call.            *)
(***************************************************************************)
C20_ProviderFailuresReported ==
    [][\A k \in 1..MaxRuns :
          (runs[k].st = "active" /\ runs[k].kind = "commits"
             /\ runs'[k].pfails > runs[k].pfails)
            => Len(runs'[k].res.errors) > Len(runs[k].res.errors)]_vars

(***************************************************************************)
(* Properties of processCommit within syncCommits (Spec)                   *)
(***************************************************************************)
\* in this step getCommitDetails settles for the i-th listed commit of worker
\* j of call k and processCommit runs to its end without throwing
JustProcessed(k, j, i) ==
    /\ runs[k].st = "active" /\ runs[k].kind = "commits"
    /\ j \in DOMAIN runs[k].ws
    /\ i \in DOMAIN runs[k].ws[j].cs
    /\ runs[k].ws[j].cs[i] = "details"
    /\ runs'[k].ws[j].cs[i] = "success"

(***************************************************************************)
(* C21: whenever a commit is processed (first ingestion, forced resync or  *)
(* repair) its CommitFile rows are replaced: afterwards the commit has     *)
(* exactly one row per file of the details just fetched, none left over    *)
(* from earlier processing and none twice.                                 *)
(***************************************************************************)
C21_FilesReplaced ==
    [][\A k \in 1..MaxRuns, j \in 1..MaxWorkers, i \in 1..MaxListed :
          (JustProcessed(k, j, i) /\ runs'[k].pfails = runs[k].pfails) =>
             LET sha == runs[k].ws[j].cl[i]
                 e == ExistingCommit(db', runs[k].ws[j].repo.id, sha)
                 files == ProviderDetails(sha).files
                 rows == SelectSeq(db'.commit_files, LAMBDA f : f.commit_id = e)
             IN /\ Len(rows) = Len(files)
                /\ \A n \in DOMAIN rows : rows[n].filename = files[n].filename.name]_vars

(***************************************************************************)
(* C22: analysis is run and persisted at most once per commit: whatever    *)
(* syncCommits calls were made (forced ones, repairs, the same sha reached *)
(* through several branches), no commit carries two CommitFlag rows of the *)
(* same flag kind.                                                         *)
(***************************************************************************)
C22_OneFlagPerKind ==
    \A x \in DOMAIN db.commit_flags, y \in DOMAIN db.commit_flags :
        (/\ db.commit_flags[x].commit_id = db.commit_flags[y].commit_id
         /\ db.commit_flags[x].flag_type = db.commit_flags[y].flag_type) => x = y

(***************************************************************************)
(* C23: the comment_only flag fires only when the diff has at least one    *)
(* file with at least one hunk and every added or removed line of the      *)
(* hunks is a comment line; a diff of file headers without hunks, such as  *)
(* the text the Azure DevOps client returns, never yields comment_only.    *)
(***************************************************************************)
C23_CommentOnlyNeedsHunks ==
    (op.name = "diff" /\ op.comment_only) =>
        LET files == parseDiff(op.diff)
        IN /\ \E f \in DOMAIN files : Len(files[f].hunks) > 0
           /\ \A f \in DOMAIN files : \A h \in DOMAIN files[f].hunks :
                 \A l \in DOMAIN files[f].hunks[h] :
                    files[f].hunks[h][l] \in {"+comment", "-comment", "+blank", "ctx"}
           /\ ~op.azure

(***************************************************************************)
(* C24: after mergeDevelopers(source, target) every identity the source    *)
(* owned is owned by the target; so a commit ingested afterwards whose     *)
(* author_email equals, letter case aside, an email that was bound to the  *)
(* source is attributed to the target by the next resolver pass, and no    *)
(* new Developer is created for it.                                        *)
(***************************************************************************)
C24_MergedEmailsFollowTarget ==
    /\ (op.name = "merge" /\ op.existed /\ op.done) =>
          \A i \in DOMAIN db.developer_identities :
             db.developer_identities[i].email \in op.moved
                => db.developer_identities[i].developer_id = op.target
    /\ (op.name = "resolve" /\ op.into # 0) =>
          LET commit == db.commits[Len(db.commits)]
          IN /\ commit.developer_id = op.into
             /\ \A i \in DOMAIN db.developer_identities :
                   ToLowerCase(db.developer_identities[i].email)
                      = ToLowerCase(commit.author_email)
                     => db.developer_identities[i].developer_id = op.into

(***************************************************************************)
(* C25: syncBranches and syncCommits only touch selected repositories.     *)
(* For a repository whose selection flag is false, and that no call still  *)
(* running took up while it was selected: no call that starts makes a      *)
(* provider call for it, and no step creates or changes a Branch, Commit,  *)
(* CommitFile, CommitFlag or SyncLogEntry row of it.  The developer_id the *)
(* resolver writes on commits is left aside.                               *)
(***************************************************************************)
C25_UnselectedUntouched ==
    [][LET \* the repositories the workers of a call are for
           ReposOf(run) ==
               IF run.kind = "commits"
               THEN {run.ws[j].repo.id : j \in DOMAIN run.ws}
               ELSE IF run.kind = "branches"
               THEN {run.ws[j].item.id : j \in DOMAIN run.ws}
               ELSE {}
           \* the rows of repository r
           RowsOf(d, r) ==
               LET cs == {i \in DOMAIN d.commits : d.commits[i].repository_id = r}
               IN [branches |-> SelectSeq(d.branches, LAMBDA b : b.repository_id = r),
                   commits |-> [i \in cs |-> [d.commits[i] EXCEPT !.developer_id = 0]],
                   files |-> SelectSeq(d.commit_files, LAMBDA f : f.commit_id \in cs),
                   flags |-> SelectSeq(d.commit_flags, LAMBDA f : f.commit_id \in cs),
                   log |-> SelectSeq(d.sync_log, LAMBDA l : l.repository_id = r)]
       IN \A r \in DOMAIN db.repositories :
             (/\ ~db.repositories[r].is_selected
              /\ \A k \in 1..MaxRuns : runs[k].st = "active" => r \notin ReposOf(runs[k]))
               => /\ \A k \in 1..MaxRuns :
                       (runs[k].st = "idle" /\ runs'[k].st # "idle")
                          => r \notin ReposOf(runs'[k])
                  /\ RowsOf(db', r) = RowsOf(db, r)]_vars

(***************************************************************************)
(* C26: however often syncRepositories runs, there is never a second       *)
(* Repository row for the same (platform, external id); a run leaves the   *)
(* id, the selection flag and the last-synced stamp of every row that      *)
(* exists as they are.                                                     *)
(***************************************************************************)
C26_RepositoryUpsertFrame ==
    [][/\ \A x \in DOMAIN db'.repositories, y \in DOMAIN db'.repositories :
            (/\ db'.repositories[x].platform_id = db'.repositories[y].platform_id
             /\ db'.repositories[x].external_id = db'.repositories[y].external_id)
               => x = y
       /\ (\E k \in 1..MaxRuns : runs'[k].kind = "repositories" /\ runs'[k] # runs[k])
            => \A r \in DOMAIN db.repositories :
                  /\ r \in DOMAIN db'.repositories
                  /\ db'.repositories[r].platform_id = db.repositories[r].platform_id
                  /\ db'.repositories[r].external_id = db.repositories[r].external_id
                  /\ db'.repositories[r].is_selected = db.repositories[r].is_selected
                  /\ db'.repositories[r].last_synced = db.repositories[r].last_synced]_vars

\* syncRepositories has run twice, the second time over rows that exist, one
\* of them selected by the user in between
C26_Witness ==
    /\ runs[1].kind = "repositories" /\ runs[1].st = "returned" /\ runs[1].res.success = 3
    /\ runs[2].kind = "repositories" /\ runs[2].st = "returned" /\ runs[2].res.success = 3
    /\ Len(db.repositories) = 3
    /\ \E r \in DOMAIN db.repositories : db.repositories[r].is_selected

(***************************************************************************)
(* C27: coverage under incremental resume.  Whatever syncs came before,    *)
(* once a call syncCommits(from, to) without force has logged success for  *)
(* a (repository, branch), every commit the provider holds on that branch  *)
(* dated within [from, to] has a Commit row.                               *)
(***************************************************************************)
C27_ResumeCoversWindow ==
    \A l \in DOMAIN db.sync_log :
        LET row == db.sync_log[l]
            call == runs[row.rid]
        IN (row.status = "success" /\ ~call.force) =>
              LET shas == ProviderBranchCommits(db.repositories[row.repository_id].full_name,
                                                db.branches[row.branch_id].name)
              IN \A n \in DOMAIN shas :
                    (/\ ProviderCommit(shas[n]).committedAt >= call.from
                     /\ ProviderCommit(shas[n]).committedAt <= call.to)
                      => ExistingCommit(db, row.repository_id, shas[n]) # 0

(***************************************************************************)
(* C28: a commit that processCommit has processed successfully with        *)
(* fetched details is not in the repair state afterwards: a sync without   *)
(* force that meets it again skips it.                                     *)
(***************************************************************************)
C28_ProcessedCommitNeedsNoRepair ==
    [][\A k \in 1..MaxRuns, j \in 1..MaxWorkers, i \in 1..MaxListed :
          (JustProcessed(k, j, i) /\ runs'[k].pfails = runs[k].pfails) =>
             SkipsCommit(db', runs[k].ws[j].repo.id, runs[k].ws[j].cl[i], FALSE)]_vars

(***************************************************************************)
(* C29: per-commit write atomicity.  The commit upsert, the CommitFile     *)
(* inserts and the CommitFlag inserts of one processCommit call run with   *)
(* no suspension point between them, so whatever the interleaving of the   *)
(* workers, once the commit row is written the file rows of the same       *)
(* processing step are there with it: no worker sees the commit without    *)
(* them.                                                                   *)
(***************************************************************************)
C29_CommitWrittenWithItsFiles ==
    [][\A k \in 1..MaxRuns, j \in 1..MaxWorkers, i \in 1..MaxListed :
          (JustProcessed(k, j, i) /\ runs'[k].pfails = runs[k].pfails) =>
             LET sha == runs[k].ws[j].cl[i]
                 e == ExistingCommit(db', runs[k].ws[j].repo.id, sha)
                 files == ProviderDetails(sha).files
                 \* the rows this step has written
                 written == {r \in DOMAIN db'.commit_files : r > Len(db.commit_files)}
             IN \A n \in DOMAIN files :
                   \E r \in written :
                      /\ db'.commit_files[r].commit_id = e
                      /\ db'.commit_files[r].filename = files[n].filename.name]_vars

(***************************************************************************)
(* C30: result accounting of syncCommits.  Every commit a listing returned *)
(* is counted exactly once, as success, failed or skipped, and the result  *)
(* that is returned has total = success + failed (skipped commits are not  *)
(* part of total), whatever the interleaving of the commit workers.        *)
(***************************************************************************)
C30_ResultAccounting ==
    \A k \in 1..MaxRuns :
        (runs[k].kind = "commits" /\ runs[k].st # "idle") =>
            LET res == runs[k].res
                \* the listed commits whose worker is through
                through == {<<j, i>> \in (1..MaxWorkers) \X (1..MaxListed) :
                              /\ j \in DOMAIN runs[k].ws
                              /\ i \in DOMAIN runs[k].ws[j].cs
                              /\ runs[k].ws[j].cs[i] \in {"success", "failed", "skipped"}}
            IN /\ res.total = res.success + res.failed
               /\ res.success + res.failed + res.skipped <= runs[k].listed
               /\ runs[k].st = "returned" =>
                     res.success + res.failed + res.skipped = runs[k].listed

\* a call has returned, having skipped one listed commit and failed on
\* another, so that its total is below the number of commits listed
C30_Witness ==
    \E k \in 1..MaxRuns :
        /\ runs[k].kind = "commits" /\ runs[k].st = "returned"
        /\ runs[k].res.skipped > 0
        /\ runs[k].res.failed > 0
        /\ runs[k].res.total < runs[k].listed
====
